---- MODULE Spec2Model ----
(***************************************************************************)
(* A model of jira_mcp_server: the YAML knowledge store                    *)
(* (knowledge_store.py) and the tool handlers of the MCP server            *)
(* (mcp_server.py).                                                        *)
(*                                                                         *)
(* Strings are sequences of symbols.  A symbol is one character ("a", "A", *)
(* "b", " ") or an opaque word that stands for a run of characters with no *)
(* letters to fold and no surrounding blanks ("queries", "q1", ...).       *)
(* Python's None is the empty tuple and a present value x is <<x>>, so     *)
(* that None and the empty string stay different values.                   *)
(***************************************************************************)
EXTENDS Integers, Sequences, FiniteSets, TLC

\* ------------------------------------------------------------------ bounds

\* Longest question text, in symbols.
MaxTextLen == 3
\* Most records in the "queries" list of a document.
MaxRecords == 2
\* Most mappings of a store that is only served from.
MaxStore == 8

\* ----------------------------------------------------------------- strings

None == <<>>
Some(x) == <<x>>
IsNone(o) == o = <<>>
Val(o) == o[1]

Letters == {"a", "A", "b"}
Blank == " "
Char == Letters \cup {Blank}

\* str.lower() on one symbol.
LowerChar(c) == IF c = "A" THEN "a" ELSE c

\* str.lower()
Lower(s) == [i \in 1..Len(s) |-> LowerChar(s[i])]

RECURSIVE LStrip(_)
LStrip(s) == IF s # <<>> /\ Head(s) = Blank THEN LStrip(Tail(s)) ELSE s

RECURSIVE RStrip(_)
RStrip(s) ==
    IF s # <<>> /\ s[Len(s)] = Blank THEN RStrip(SubSeq(s, 1, Len(s) - 1)) ELSE s

\* str.strip()
Strip(s) == RStrip(LStrip(s))

\* Python's "p in s" on two strings.
IsSubstring(p, s) ==
    \E k \in 0..(Len(s) - Len(p)) : SubSeq(s, k + 1, k + Len(p)) = p

\* Python's truth value of an optional string: None and "" are falsy.
Truthy(o) == ~IsNone(o) /\ Val(o) # <<>>

\* All strings over S of length at most n.
RECURSIVE StringsUpTo(_, _)
StringsUpTo(S, n) ==
    IF n = 0 THEN {<<>>}
    ELSE LET shorter == StringsUpTo(S, n - 1)
         IN shorter \cup {Append(s, c) : s \in shorter, c \in S}

\* --------------------------------------------------------- YAML data values

\* What yaml.safe_load returns: null, an integer, a string, a list or a
\* mapping (an ordered list of <<key, value>> pairs).
YNull == [tag |-> "null"]
YInt(n) == [tag |-> "int", n |-> n]
YStr(s) == [tag |-> "str", s |-> s]
YSeq(items) == [tag |-> "seq", items |-> items]
YMap(pairs) == [tag |-> "map", pairs |-> pairs]

\* Python's truth value of a loaded value.
YTruthy(v) ==
    CASE v.tag = "null" -> FALSE
      [] v.tag = "int" -> v.n # 0
      [] v.tag = "str" -> v.s # <<>>
      [] v.tag = "seq" -> v.items # <<>>
      [] v.tag = "map" -> v.pairs # <<>>

\* The key of a mapping: a one-word string.
Key(name) == YStr(<<name>>)

\* dict.__contains__ / dict.__getitem__ on a loaded mapping with a string key.
HasKey(m, k) == \E i \in 1..Len(m.pairs) : m.pairs[i][1] = Key(k)
Lookup(m, k) ==
    LET i == CHOOSE j \in 1..Len(m.pairs) : m.pairs[j][1] = Key(k)
    IN m.pairs[i][2]

\* ---------------------------------------------------- QueryMapping (pydantic)

IsStrList(v) ==
    /\ v.tag = "seq"
    /\ \A i \in 1..Len(v.items) : v.items[i].tag = "str"

StrList(v) == [i \in 1..Len(v.items) |-> v.items[i].s]

\* QueryMapping(**raw): the ** call needs a mapping with string keys
\* (TypeError otherwise); pydantic then validates the three required fields
\* and the optional one (ValidationError, a ValueError), ignores every other
\* key and builds the object.
QueryMapping(raw) ==
    IF raw.tag # "map" \/ \E i \in 1..Len(raw.pairs) : raw.pairs[i][1].tag # "str"
    THEN [status |-> "TypeError", value |-> None]
    ELSE IF \/ ~HasKey(raw, "question_patterns")
            \/ ~HasKey(raw, "jql_query")
            \/ ~HasKey(raw, "description")
    THEN [status |-> "ValidationError", value |-> None]
    ELSE IF \/ ~IsStrList(Lookup(raw, "question_patterns"))
            \/ Lookup(raw, "jql_query").tag # "str"
            \/ Lookup(raw, "description").tag # "str"
            \/ /\ HasKey(raw, "examples")
               /\ Lookup(raw, "examples").tag # "null"
               /\ ~IsStrList(Lookup(raw, "examples"))
    THEN [status |-> "ValidationError", value |-> None]
    ELSE [status |-> "ok",
          value |-> Some([question_patterns |-> StrList(Lookup(raw, "question_patterns")),
                          jql_query |-> Lookup(raw, "jql_query").s,
                          description |-> Lookup(raw, "description").s,
                          examples |->
                              IF HasKey(raw, "examples") /\ Lookup(raw, "examples").tag = "seq"
                              THEN Some(StrList(Lookup(raw, "examples")))
                              ELSE None])]

\* ------------------------------------------------------ YamlKnowledgeStore

\* self.file_path
file_path == <<"knowledge_store.yaml">>

\* "queries" not in data: a key test on a mapping, an element test on a list,
\* a substring test on a string; an integer is not iterable (TypeError).
QueriesIn(data) ==
    CASE data.tag = "map" -> [status |-> "ok", value |-> HasKey(data, "queries")]
      [] data.tag = "seq" ->
            [status |-> "ok",
             value |-> \E i \in 1..Len(data.items) : data.items[i] = Key("queries")]
      [] data.tag = "str" -> [status |-> "ok", value |-> IsSubstring(<<"queries">>, data.s)]
      [] OTHER -> [status |-> "TypeError", value |-> FALSE]

\* data["queries"]: only a mapping can be indexed by a string.
QueriesOf(data) ==
    IF data.tag = "map"
    THEN [status |-> "ok", value |-> Some(Lookup(data, "queries"))]
    ELSE [status |-> "TypeError", value |-> None]

\* "for mapping in v": the items of a list, the keys of a mapping, the
\* characters of a string; null and integers are not iterable.
IterItems(v) ==
    CASE v.tag = "seq" -> [status |-> "ok", value |-> v.items]
      [] v.tag = "map" ->
            [status |-> "ok", value |-> [i \in 1..Len(v.pairs) |-> v.pairs[i][1]]]
      [] v.tag = "str" ->
            [status |-> "ok", value |-> [i \in 1..Len(v.s) |-> YStr(<<v.s[i]>>)]]
      [] OTHER -> [status |-> "TypeError", value |-> <<>>]

\* [QueryMapping(**mapping) for mapping in items]: the list built so far is
\* a temporary; the first failing item ends the comprehension.
RECURSIVE Comprehension(_, _)
Comprehension(items, built) ==
    IF items = <<>> THEN [status |-> "ok", value |-> built]
    ELSE LET m == QueryMapping(Head(items))
         IN IF m.status # "ok" THEN [status |-> m.status, value |-> <<>>]
            ELSE Comprehension(Tail(items), Append(built, Val(m.value)))

\* The body of the try block of reload(), from the parsed data to the new
\* list: status "ok" and the list, or the kind of the exception raised.
LoadData(data) ==
    IF ~YTruthy(data) THEN [status |-> "ok", value |-> <<>>]
    ELSE LET has == QueriesIn(data)
         IN IF has.status # "ok" THEN [status |-> has.status, value |-> <<>>]
            ELSE IF ~has.value THEN [status |-> "ok", value |-> <<>>]
            ELSE LET q == QueriesOf(data)
                 IN IF q.status # "ok" THEN [status |-> q.status, value |-> <<>>]
                    ELSE LET it == IterItems(Val(q.value))
                         IN IF it.status # "ok"
                            THEN [status |-> it.status, value |-> <<>>]
                            ELSE Comprehension(it.value, <<>>)

\* The exception a caller of reload() sees, None when it returns normally:
\* yaml.YAMLError and ValueError are caught and wrapped in a ValueError that
\* names the path and the cause; anything else passes through as it is.
NoError == None
WrappedError(cause) ==
    Some([type |-> "ValueError",
          message |-> <<"Failed to load knowledge store from ", file_path, cause>>])
PlainError(type) == Some([type |-> type, message |-> <<type>>])

\* The objects a loop that appends to self._mappings one record at a time
\* has stored when it stops at the first record that fails.
RECURSIVE BuiltBeforeFailure(_)
BuiltBeforeFailure(items) ==
    IF items = <<>> \/ QueryMapping(Head(items)).status # "ok" THEN <<>>
    ELSE <<Val(QueryMapping(Head(items)).value)>> \o BuiltBeforeFailure(Tail(items))

\* reload() written with self._mappings cleared first and filled in place.
ReloadInPlace(d) ==
    IF ~d.exists THEN [assign |-> Some(<<>>), raised |-> NoError]
    ELSE IF ~d.wellformed THEN [assign |-> Some(<<>>), raised |-> WrappedError("YAMLError")]
    ELSE LET r == LoadData(d.data)
             built == IF d.data.tag = "map" /\ HasKey(d.data, "queries")
                         /\ Lookup(d.data, "queries").tag = "seq"
                      THEN BuiltBeforeFailure(Lookup(d.data, "queries").items)
                      ELSE <<>>
         IN CASE r.status = "ok" -> [assign |-> Some(r.value), raised |-> NoError]
              [] r.status = "ValidationError" ->
                    [assign |-> Some(built), raised |-> WrappedError("ValidationError")]
              [] OTHER -> [assign |-> Some(built), raised |-> PlainError(r.status)]

\* reload() on file d: what it assigns to self._mappings (None: no
\* assignment) and what it raises.
ReloadOutcome(d) ==
    IF ~d.exists THEN [assign |-> Some(<<>>), raised |-> NoError]
    ELSE IF ~d.wellformed THEN [assign |-> None, raised |-> WrappedError("YAMLError")]
    ELSE LET r == LoadData(d.data)
         IN CASE r.status = "ok" -> [assign |-> Some(r.value), raised |-> NoError]
              [] r.status = "ValidationError" ->
                    [assign |-> None, raised |-> WrappedError("ValidationError")]
              [] OTHER -> [assign |-> None, raised |-> PlainError(r.status)]

\* for mapping in self._mappings: for pattern in mapping.question_patterns:
\* if pattern.lower() in question_lower: return mapping.jql_query
RECURSIVE AnyPatternIn(_, _)
AnyPatternIn(patterns, question_lower) ==
    IF patterns = <<>> THEN FALSE
    ELSE IF IsSubstring(Lower(Head(patterns)), question_lower) THEN TRUE
    ELSE AnyPatternIn(Tail(patterns), question_lower)

\* The scan written without the early return: the last matching mapping
\* wins.
RECURSIVE LastMatch(_, _)
LastMatch(ms, question_lower) ==
    IF ms = <<>> THEN None
    ELSE LET later == LastMatch(Tail(ms), question_lower)
         IN IF ~IsNone(later) THEN later
            ELSE IF AnyPatternIn(Head(ms).question_patterns, question_lower)
            THEN Some(Head(ms).jql_query)
            ELSE None

RECURSIVE FirstMatch(_, _)
FirstMatch(ms, question_lower) ==
    IF ms = <<>> THEN None
    ELSE IF AnyPatternIn(Head(ms).question_patterns, question_lower)
    THEN Some(Head(ms).jql_query)
    ELSE FirstMatch(Tail(ms), question_lower)

\* The matcher with the question left as typed.
GetJqlAsTyped(ms, q) == FirstMatch(ms, q)

\* The matcher written to try a mapping's description as one more pattern.
GetJqlByDescription(ms, q) ==
    FirstMatch([i \in 1..Len(ms) |->
                  [ms[i] EXCEPT !.question_patterns = Append(@, ms[i].description)]],
               Strip(Lower(q)))

\* The matcher written to pass over empty patterns.
GetJqlSkippingEmpty(ms, q) ==
    FirstMatch([i \in 1..Len(ms) |->
                  [ms[i] EXCEPT !.question_patterns = SelectSeq(@, LAMBDA x : x # <<>>)]],
               Strip(Lower(q)))

\* The matcher written to fall back on the first mapping when nothing
\* matches.
GetJqlOrFirst(ms, q) ==
    LET found == FirstMatch(ms, Strip(Lower(q)))
    IN IF IsNone(found) /\ ms # <<>> THEN Some(Head(ms).jql_query) ELSE found

\* get_jql_for_question(question) against the mapping objects ms.
GetJql(ms, q) == FirstMatch(ms, Strip(Lower(q)))

\* ------------------------------------------------------------------- state

VARIABLES
    doc,          \* the file at file_path: [exists, wellformed, data]
    constructed,  \* a YamlKnowledgeStore object exists
    mappings,     \* self._mappings: a list of references to QueryMapping objects
    heap,         \* the QueryMapping objects, by reference; None: no such object
    listed,       \* the list a caller holds from list_available_queries(), or None
    op,           \* the last event
    question,     \* the argument of the last get_jql_for_question
    result,       \* what the last get_jql_for_question returned
    raised,       \* the exception the last store call raised, or None
    seen,         \* per question of Questions, the last answer a caller got
    request,      \* the last tool call: [name, arguments], or None
    reply,        \* the CallToolResult it returned: [isError, text], or None
    trace,        \* the calls the handler made to the store and the Jira client
    pc,           \* where the server process is: "start", "constructed",
                  \* "checked", "loaded", "serving", "exited 1"; "none": the
                  \* store is used without a server process
    steps,        \* what the process did since it started, in order
    client,       \* the JiraClient object: [_client], or None: there is none
    connected,    \* what the last test_connection() returned, or None
    reader,       \* a thread inside get_jql_for_question: where its scan is
    loader        \* a thread inside reload(): the list it built, not yet assigned

vars ==
    <<doc, constructed, mappings, heap, listed, op, question, result, raised, seen,
      request, reply, trace, pc, steps, client, connected, reader, loader>>

\* References: the store's objects, the objects only a caller's list still
\* holds, and the objects a reload is building.
ObjIds == 1..(IF 3 * MaxRecords > MaxStore THEN 3 * MaxRecords ELSE MaxStore)

\* The objects a list of references denotes.
Deref(h, refs) == [i \in 1..Len(refs) |-> Val(h[refs[i]])]

\* What list_available_queries() returns and get_jql_for_question() scans,
\* as values.
Contents == Deref(heap, mappings)

ListedRefs(l) == IF IsNone(l) THEN <<>> ELSE Val(l)

\* The references of refs, each once, in order of first occurrence.
RECURSIVE Distinct(_, _)
Distinct(refs, acc) ==
    IF refs = <<>> THEN acc
    ELSE IF \E i \in 1..Len(acc) : acc[i] = Head(refs)
    THEN Distinct(Tail(refs), acc)
    ELSE Distinct(Tail(refs), Append(acc, Head(refs)))

\* Garbage collection: objects nothing refers to are gone, and the objects
\* left are numbered in order of first reference (a reference is an identity,
\* not a number the program reads).
Collect(h, ms, l) ==
    LET live == Distinct(ms \o ListedRefs(l), <<>>)
        new(r) == CHOOSE i \in 1..Len(live) : live[i] = r
    IN [heap |-> [i \in ObjIds |-> IF i <= Len(live) THEN h[live[i]] ELSE None],
        mappings |-> [i \in 1..Len(ms) |-> new(ms[i])],
        listed |-> IF IsNone(l) THEN None
                   ELSE Some([i \in 1..Len(Val(l)) |-> new(Val(l)[i])])]

\* Fresh objects for the values vs: references no live object uses.
Allocate(h, vs) ==
    LET free == {i \in ObjIds : IsNone(h[i])}
        RECURSIVE Pick(_, _)
        Pick(n, avail) ==
            IF n = 0 THEN <<>>
            ELSE LET r == CHOOSE x \in avail : \A y \in avail : x <= y
                 IN <<r>> \o Pick(n - 1, avail \ {r})
        refs == Pick(Len(vs), free)
    IN [refs |-> refs,
        heap |-> [i \in ObjIds |->
                    IF \E k \in 1..Len(refs) : refs[k] = i
                    THEN Some(vs[CHOOSE k \in 1..Len(refs) : refs[k] = i])
                    ELSE h[i]]]

EmptyHeap == [i \in ObjIds |-> None]

\* --------------------------------------------------- the documents on disk

F(name, v) == <<Key(name), v>>
Strs(ss) == YSeq([i \in 1..Len(ss) |-> YStr(ss[i])])

\* A record with one field left out, and with one field set to another value.
Without(rec, name) == YMap(SelectSeq(rec.pairs, LAMBDA p : p[1] # Key(name)))
With(rec, name, v) == YMap(Append(Without(rec, name).pairs, F(name, v)))

RecA ==
    YMap(<<F("question_patterns", Strs(<< <<"a">> >>)),
           F("jql_query", YStr(<<"q1">>)),
           F("description", YStr(<<"d1">>))>>)
RecB ==
    YMap(<<F("description", YStr(<<"d2">>)),
           F("owner", YInt(7)),
           F("question_patterns", Strs(<< <<"A", " ", "b">>, <<"b">> >>)),
           F("examples", Strs(<< <<"e1">> >>)),
           F("jql_query", YStr(<<"q2">>))>>)
RecC ==
    YMap(<<F("question_patterns", Strs(<< <<"b">> >>)),
           F("jql_query", YStr(<<>>)),
           F("description", YStr(<<"d3">>)),
           F("examples", YNull)>>)

\* Records whose fields are all present and of the right type.
ValidRecords == {RecA, RecB, RecC}

\* Records that fail required-field validation, and a record that is no
\* mapping of fields.
InvalidRecords ==
    {Without(RecA, "question_patterns"),
     With(RecA, "question_patterns", YStr(<<"a">>)),
     Without(RecA, "jql_query"),
     With(RecA, "jql_query", YInt(5)),
     Without(RecA, "description"),
     With(RecA, "description", YNull),
     YStr(<<"a">>)}

Records == ValidRecords \cup InvalidRecords

Absent == [exists |-> FALSE, wellformed |-> TRUE, data |-> YNull]
Malformed == [exists |-> TRUE, wellformed |-> FALSE, data |-> YNull]
File(data) == [exists |-> TRUE, wellformed |-> TRUE, data |-> data]
QueriesFile(recs) == File(YMap(<<F("queries", YSeq(recs))>>))

\* Documents without a list of records under "queries".
OtherData ==
    {YNull, YInt(0), YInt(42), YStr(<<"hello">>), YStr(<<"all ", "queries">>),
     YSeq(<<>>), YSeq(<<Key("queries")>>), YMap(<<>>), YMap(<<F("other", YInt(1))>>),
     YMap(<<F("queries", YNull)>>), YMap(<<F("queries", YStr(<<>>))>>)}

Shapes == {Absent, Malformed, QueriesFile(<<>>)} \cup {File(d) : d \in OtherData}

IsQueriesFile(d) ==
    /\ d.exists /\ d.wellformed /\ d.data.tag = "map"
    /\ Len(d.data.pairs) = 1 /\ d.data.pairs[1][1] = Key("queries")
    /\ d.data.pairs[1][2].tag = "seq"

RecordsOf(d) == d.data.pairs[1][2].items

\* ----------------------------------------------------------------- actions

\* The state of the store's objects once a load assigned the values vs to
\* self._mappings: new objects, the old ones kept only while a caller's list
\* refers to them.
Assigned(h, l, vs) ==
    LET a == Allocate(h, vs)
    IN Collect(a.heap, a.refs, l)

\* The file is deleted, or rewritten as one of the Shapes.  Between two
\* calls no exception is in flight.
WriteFile ==
    /\ \E d \in Shapes : doc' = d
    /\ op' = "edit"
    /\ raised' = NoError
    /\ UNCHANGED <<constructed, mappings, heap, listed, question, result, seen, request, reply, trace, pc, steps, client, connected, reader, loader>>

\* One more record is written to the "queries" list of the file.
AppendRecord ==
    /\ IsQueriesFile(doc)
    /\ Len(RecordsOf(doc)) < MaxRecords
    /\ \E r \in Records : doc' = QueriesFile(Append(RecordsOf(doc), r))
    /\ op' = "edit"
    /\ raised' = NoError
    /\ UNCHANGED <<constructed, mappings, heap, listed, question, result, seen, request, reply, trace, pc, steps, client, connected, reader, loader>>

\* YamlKnowledgeStore(file_path): self._mappings = [] and reload(); when
\* reload() raises there is no store object.
Construct ==
    LET out == ReloadOutcome(doc)
        vs == IF IsNone(out.assign) THEN <<>> ELSE Val(out.assign)
        new == Assigned(heap, listed, vs)
    IN /\ constructed' = IsNone(out.raised)
       /\ mappings' = new.mappings
       /\ heap' = new.heap
       /\ listed' = new.listed
       /\ raised' = out.raised
       /\ op' = "construct"
       /\ UNCHANGED <<doc, question, result, seen, request, reply, trace, pc, steps, client, connected, reader, loader>>

\* reload() written as an update of the list it holds: the loaded records
\* are added after the prior entries whose description the document no
\* longer has.
reload_merging ==
    /\ constructed
    /\ LET out == ReloadOutcome(doc)
           kept == IF IsNone(out.assign) THEN <<>>
                   ELSE SelectSeq(Contents,
                                  LAMBDA m : \A i \in 1..Len(Val(out.assign)) :
                                                Val(out.assign)[i].description # m.description)
           new == IF IsNone(out.assign)
                  THEN [heap |-> heap, mappings |-> mappings, listed |-> listed]
                  ELSE Assigned(heap, listed, kept \o Val(out.assign))
       IN /\ mappings' = new.mappings
          /\ heap' = new.heap
          /\ listed' = new.listed
          /\ raised' = out.raised
    /\ op' = "reload"
    /\ UNCHANGED <<doc, constructed, question, result, seen, request, reply, trace, pc, steps, client, connected, reader, loader>>

\* store.reload()
reload ==
    /\ constructed
    /\ LET out == ReloadOutcome(doc)
           new == IF IsNone(out.assign)
                  THEN [heap |-> heap, mappings |-> mappings, listed |-> listed]
                  ELSE Assigned(heap, listed, Val(out.assign))
       IN /\ mappings' = new.mappings
          /\ heap' = new.heap
          /\ listed' = new.listed
          /\ raised' = out.raised
    /\ op' = "reload"
    /\ UNCHANGED <<doc, constructed, question, result, seen, request, reply, trace, pc, steps, client, connected, reader, loader>>

\* store.list_available_queries(): self._mappings.copy(), a new list of the
\* same references.
list_available_queries ==
    /\ constructed
    /\ LET new == Collect(heap, mappings, Some(mappings))
       IN /\ mappings' = new.mappings
          /\ heap' = new.heap
          /\ listed' = new.listed
    /\ op' = "list_available_queries"
    /\ raised' = NoError
    /\ UNCHANGED <<doc, constructed, question, result, seen, request, reply, trace, pc, steps, client, connected, reader, loader>>

\* The questions asked of a store that is also reloaded and listed, and
\* every question text of at most MaxTextLen characters.
Questions == {<<" ", "A">>, <<"b">>}
Texts == StringsUpTo(Char, MaxTextLen)

\* get_jql_for_question(q) written to move the mapping that matched to the
\* front of self._mappings, so that frequent questions are found sooner.
AskAndPromote(Q) ==
    /\ constructed
    /\ \E q \in Q :
          /\ question' = q
          /\ result' = GetJql(Contents, q)
          /\ seen' = [x \in Questions |-> IF x = q THEN Some(result') ELSE seen[x]]
          /\ LET hit == {i \in 1..Len(mappings) :
                           AnyPatternIn(Contents[i].question_patterns, Strip(Lower(q)))}
                 first == CHOOSE i \in hit : \A j \in hit : i <= j
             IN mappings' =
                   IF hit = {} THEN mappings
                   ELSE <<mappings[first]>> \o SubSeq(mappings, 1, first - 1)
                            \o SubSeq(mappings, first + 1, Len(mappings))
    /\ op' = "get_jql_for_question"
    /\ raised' = NoError
    /\ UNCHANGED <<doc, constructed, heap, listed, request, reply, trace, pc, steps, client, connected, reader, loader>>

\* store.get_jql_for_question(q) for a question q of Q.
Ask(Q) ==
    /\ constructed
    /\ \E q \in Q :
          /\ question' = q
          /\ result' = GetJql(Contents, q)
          /\ seen' = [x \in Questions |-> IF x = q THEN Some(result') ELSE seen[x]]
    /\ op' = "get_jql_for_question"
    /\ raised' = NoError
    /\ UNCHANGED <<doc, constructed, mappings, heap, listed, request, reply, trace, pc, steps, client, connected, reader, loader>>

get_jql_for_question == Ask(Questions)

\* The same call on the text that is waiting in question.
get_jql_for_text == Ask({question})

\* What a caller can do with the list it was returned: the list is its own,
\* the QueryMapping objects in it are the store's (QueryMapping is a plain
\* pydantic model, its fields can be assigned).
ListAppend ==
    /\ ~IsNone(listed)
    /\ Val(listed) # <<>>
    /\ Len(Val(listed)) <= MaxRecords
    /\ listed' = Some(Append(Val(listed), Val(listed)[1]))
    /\ op' = "caller"
    /\ raised' = NoError
    /\ UNCHANGED <<doc, constructed, mappings, heap, question, result, seen, request, reply, trace, pc, steps, client, connected, reader, loader>>

ListRemove ==
    /\ ~IsNone(listed)
    /\ \E i \in 1..Len(Val(listed)) :
          LET l == Val(listed)
              new == Collect(heap, mappings,
                             Some(SubSeq(l, 1, i - 1) \o SubSeq(l, i + 1, Len(l))))
          IN /\ mappings' = new.mappings
             /\ heap' = new.heap
             /\ listed' = new.listed
    /\ op' = "caller"
    /\ raised' = NoError
    /\ UNCHANGED <<doc, constructed, question, result, seen, request, reply, trace, pc, steps, client, connected, reader, loader>>

ListReverse ==
    /\ ~IsNone(listed)
    /\ Len(Val(listed)) >= 2
    /\ LET l == Val(listed)
           new == Collect(heap, mappings, Some([i \in 1..Len(l) |-> l[Len(l) + 1 - i]]))
       IN /\ mappings' = new.mappings
          /\ heap' = new.heap
          /\ listed' = new.listed
    /\ op' = "caller"
    /\ raised' = NoError
    /\ UNCHANGED <<doc, constructed, question, result, seen, request, reply, trace, pc, steps, client, connected, reader, loader>>

\* listed[i].jql_query = "changed"
SetQuery ==
    /\ ~IsNone(listed)
    /\ \E i \in 1..Len(Val(listed)) :
          LET r == Val(listed)[i]
          IN heap' = [heap EXCEPT ![r] = Some([Val(heap[r]) EXCEPT !.jql_query = <<"changed">>])]
    /\ op' = "caller"
    /\ raised' = NoError
    /\ UNCHANGED <<doc, constructed, mappings, listed, question, result, seen, request, reply, trace, pc, steps, client, connected, reader, loader>>

\* Lists of at most n elements of S.
RECURSIVE ListsUpTo(_, _)
ListsUpTo(S, n) ==
    IF n = 0 THEN {<<>>}
    ELSE LET shorter == ListsUpTo(S, n - 1)
         IN shorter \cup {Append(l, x) : l \in shorter, x \in S}

\* One step of the server process: what ran, what it returned (None: no
\* value the process looks at) and what it raised.
Step(step, out, error) == [step |-> step, out |-> out, error |-> error]

\* The steps of a process that reached serving with no failure on the way:
\* JiraMCPServer.__init__ (the client, then the store), then run_stdio (the
\* connection test, the reload, the run of the server on stdio).
Started ==
    <<Step("JiraClient", None, NoError), Step("create_store", None, NoError),
      Step("test_connection", Some(TRUE), NoError), Step("reload", None, NoError),
      Step("run", None, NoError)>>

\* A JiraClient object whose _client holds the JIRA instance the constructor
\* made, and one whose _client holds nothing.
Initialized == Some([_client |-> Some("JIRA")])
Uninitialized == Some([_client |-> None])

\* No thread is inside get_jql_for_question, none inside reload().
\* attached: the list the scan walks is the list self._mappings refers to;
\* held: the mappings of that list once self._mappings refers to another;
\* versions: the complete sequences the store held while the call ran.
NoReader ==
    [pc |-> "idle", text |-> <<>>, pos |-> 0, attached |-> FALSE, held |-> <<>>,
     versions |-> {}]
NoLoader == [pc |-> "idle", built |-> <<>>, before |-> <<>>]

Init ==
    /\ doc = Absent
    /\ constructed = FALSE
    /\ mappings = <<>>
    /\ heap = EmptyHeap
    /\ listed = None
    /\ op = "start"
    /\ question = <<>>
    /\ result = None
    /\ raised = NoError
    /\ seen = [x \in Questions |-> None]
    /\ request = None
    /\ reply = None
    /\ trace = <<>>
    /\ pc = "none"
    /\ steps = <<>>
    /\ client = None
    /\ connected = None
    /\ reader = NoReader
    /\ loader = NoLoader

\* The store and its file: loads against every kind of document.
Next == WriteFile \/ AppendRecord \/ Construct \/ reload

Spec == Init /\ [][Next]_vars

\* A store constructed from a file of valid records.
InitCalls ==
    /\ \E recs \in ListsUpTo(ValidRecords, MaxRecords) :
          /\ doc = QueriesFile(recs)
          /\ LET new == Assigned(EmptyHeap, None, Val(ReloadOutcome(doc).assign))
             IN /\ mappings = new.mappings
                /\ heap = new.heap
    /\ constructed = TRUE
    /\ listed = None
    /\ op = "construct"
    /\ question = <<>>
    /\ result = None
    /\ raised = NoError
    /\ seen = [x \in Questions |-> None]
    /\ request = None
    /\ reply = None
    /\ trace = <<>>
    /\ pc = "serving"
    /\ steps = Started
    /\ client = Initialized
    /\ connected = None
    /\ reader = NoReader
    /\ loader = NoLoader

\* The store and its callers: reads, and what callers do with what they read.
NextCalls ==
    \/ reload \/ list_available_queries \/ get_jql_for_question
    \/ ListAppend \/ ListRemove \/ ListReverse \/ SetQuery

SpecCalls == InitCalls /\ [][NextCalls]_vars

\* The store and its readers.
NextReads == reload \/ list_available_queries \/ get_jql_for_question

SpecReads == InitCalls /\ [][NextReads]_vars

\* The mapping objects the matcher is tried on.
Mapping(ps, q, d) ==
    [question_patterns |-> ps, jql_query |-> q, description |-> d, examples |-> None]

MatcherMappings ==
    {Mapping(<< <<"a", "b">>, <<" ", "a">> >>, <<"q1">>, <<"d1">>),
     Mapping(<< <<"A">> >>, <<"q2">>, <<"d2">>),
     Mapping(<< <<"b">> >>, <<"q1">>, <<"d1">>),
     Mapping(<< <<"b">> >>, <<"q3">>, <<"d3">>),
     Mapping(<< >>, <<"q4">>, <<"d4">>),
     Mapping(<< <<>> >>, <<"q5">>, <<"d5">>)}

\* A store that holds some list of the MatcherMappings, and a text to ask.
InitMatch ==
    /\ doc = Absent
    /\ \E vs \in ListsUpTo(MatcherMappings, MaxRecords) :
          LET new == Assigned(EmptyHeap, None, vs)
          IN /\ mappings = new.mappings
             /\ heap = new.heap
    /\ constructed = TRUE
    /\ listed = None
    /\ op = "construct"
    /\ question \in Texts
    /\ result = None
    /\ raised = NoError
    /\ seen = [x \in Questions |-> None]
    /\ request = None
    /\ reply = None
    /\ trace = <<>>
    /\ pc = "none"
    /\ steps = <<>>
    /\ client = None
    /\ connected = None
    /\ reader = NoReader
    /\ loader = NoLoader

\* The matcher alone, on every text.
NextMatch == get_jql_for_text

SpecMatch == InitMatch /\ [][NextMatch]_vars

\* -------------------------------------------------------------- JiraClient

\* stop_after_attempt(3)
StopAfterAttempt == 3

NL == "\n"

\* The strings of parts, one after the other.
RECURSIVE Concat(_)
Concat(parts) == IF parts = <<>> THEN <<>> ELSE Head(parts) \o Concat(Tail(parts))

\* sep.join(parts)
RECURSIVE Join(_, _)
Join(sep, parts) ==
    IF parts = <<>> THEN <<>>
    ELSE IF Len(parts) = 1 THEN Head(parts)
    ELSE Head(parts) \o sep \o Join(sep, Tail(parts))

\* str(n) of an integer: one word.
Str(n) == <<ToString(n)>>

\* One call a handler or the client made: the callee, its arguments and,
\* when it returned a value the model follows, that value (for a search:
\* what the tracker answered, an exception included).
Call(callee, args, out) ==
    [callee |-> callee, args |-> args, out |-> out, error |-> NoError]

\* One call that ended with an exception: the exception's class and str().
Raising(callee, args, type, message) ==
    [callee |-> callee, args |-> args, out |-> None,
     error |-> Some([type |-> type, message |-> message])]

\* What the tracker answers to one search_issues call: a list of issues, a
\* JIRAError of its own, or any other exception (the network).
Found(issues) == [kind |-> "issues", issues |-> issues, text |-> <<>>]
Rejects(text) == [kind |-> "JIRAError", issues |-> <<>>, text |-> text]
Breaks(text) == [kind |-> "Exception", issues |-> <<>>, text |-> text]

\* The dictionary execute_jql builds of one issue; description None: the
\* key is left out.
IssueData(issue) ==
    [key |-> issue.key,
     summary |-> issue.summary,
     status |-> issue.status,
     assignee |-> issue.assignee,
     reporter |-> issue.reporter,
     created |-> issue.created,
     updated |-> issue.updated,
     priority |-> issue.priority,
     issuetype |-> issue.issuetype,
     project |-> issue.project,
     description |-> IF Truthy(issue.description) THEN issue.description ELSE None]

\* The body of execute_jql, one attempt: the response data, or a JIRAError
\* (the tracker's own, or one made of any other exception).
SearchAttempt(jql_query, max_results, response) ==
    CASE response.kind = "issues" ->
            LET results == [i \in 1..Len(response.issues) |-> IssueData(response.issues[i])]
            IN [status |-> "ok",
                value |-> Some([jql |-> jql_query,
                                total |-> Len(results),
                                max_results |-> max_results,
                                issues |-> results]),
                message |-> <<>>]
      [] response.kind = "JIRAError" ->
            [status |-> "JIRAError", value |-> None, message |-> response.text]
      [] OTHER ->
            [status |-> "JIRAError", value |-> None,
             message |-> <<"Unexpected error: ">> \o response.text]

\* str() of the tenacity.RetryError raised once the attempts are used up:
\* it names the class of the last attempt's exception, not its message.
RetryErrorText(last) ==
    <<"RetryError[<Future at 0x0 state=finished raised ", last.status, ">]">>

\* execute_jql without the retry decorator: one attempt, its JIRAError
\* raised as it is.
RetryingNever(jql_query, max_results, script, n) ==
    LET r == SearchAttempt(jql_query, max_results, script[n])
    IN [status |-> r.status, value |-> r.value, message |-> r.message,
        trace |-> <<Call("search_issues", <<jql_query, max_results>>, Some(script[n]))>>]

\* The retry loop around the body: attempt n of the call, against the
\* tracker's responses script[n], script[n + 1], ...  A JIRAError is retried
\* until StopAfterAttempt attempts were made; then RetryError is raised.
RECURSIVE Retrying(_, _, _, _)
Retrying(jql_query, max_results, script, n) ==
    LET r == SearchAttempt(jql_query, max_results, script[n])
        searched == <<Call("search_issues", <<jql_query, max_results>>, Some(script[n]))>>
    IN IF r.status = "ok"
       THEN [status |-> "ok", value |-> r.value, message |-> <<>>, trace |-> searched]
       ELSE IF n >= StopAfterAttempt
       THEN [status |-> "RetryError", value |-> None,
             message |-> RetryErrorText(r), trace |-> searched]
       ELSE LET rest == Retrying(jql_query, max_results, script, n + 1)
            IN [rest EXCEPT !.trace = searched \o rest.trace]

\* jira_client.execute_jql(jql_query, max_results) as its caller sees it:
\* the response data or the exception, and the calls made.
execute_jql(jql_query, max_results, script) ==
    LET r == Retrying(jql_query, max_results, script, 1)
    IN [r EXCEPT !.trace =
            <<IF r.status = "ok"
              THEN Call("execute_jql", <<jql_query, max_results>>, r.value)
              ELSE Raising("execute_jql", <<jql_query, max_results>>, r.status, r.message)>>
            \o r.trace]

\* jira_client.get_projects(): the tracker's projects as dictionaries, or
\* the tracker's exception as it is.
get_projects(projects) ==
    IF projects.kind = "projects"
    THEN [status |-> "ok",
          value |-> [i \in 1..Len(projects.items) |->
                        [key |-> projects.items[i].key,
                         name |-> projects.items[i].name,
                         description |-> projects.items[i].description,
                         lead |-> IF Truthy(projects.items[i].lead)
                                  THEN projects.items[i].lead ELSE None]],
          message |-> <<>>]
    ELSE [status |-> projects.kind, value |-> <<>>, message |-> projects.text]

\* test_connection() without its try block: what self.client or
\* server_info() raises goes to the caller.
TestConnectionUncaught(self_client, server_info) ==
    IF IsNone(self_client)
    THEN [out |-> None,
          raised |-> Some([type |-> "RuntimeError",
                           message |-> <<"JIRA client is not initialized">>]),
          trace |-> <<>>]
    ELSE [out |-> IF server_info THEN Some(TRUE) ELSE None,
          raised |-> IF server_info THEN NoError ELSE PlainError("Exception"),
          trace |-> <<Call("server_info", <<>>, Some(server_info))>>]

\* JiraClient.test_connection() on an object whose _client is self_client,
\* server_info() answering (TRUE) or raising (FALSE): the property client
\* raises RuntimeError when _client is None, and every exception of the try
\* block ends in `return False`.
TestConnection(self_client, server_info) ==
    IF IsNone(self_client)
    THEN [out |-> Some(FALSE), raised |-> NoError, trace |-> <<>>]
    ELSE [out |-> Some(server_info), raised |-> NoError,
          trace |-> <<Call("server_info", <<>>, Some(server_info))>>]

\* jira_client.test_connection() of the server, whose client the
\* constructor initialized: whether server_info() answered.
test_connection(server_info) == Val(TestConnection(Val(Initialized)._client, server_info).out)

\* The usernames of JiraConfig: none, the empty string, a name.
Usernames == {None, Some(<<>>), Some(<<"user">>)}

\* What the JIRA(...) constructor does at the first and at the second
\* attempt of one construction: TRUE, it returns an instance; FALSE, it
\* raises.
AuthScripts == [1..2 -> BOOLEAN]

\* One JIRA(...) call: the keyword that carries the credentials, and
\* whether it returned.
Attempt(auth, ok) == Call("JIRA", <<auth>>, Some(ok))

\* _initialize_client written to try basic authentication first when a
\* username is configured.
InitializeClientBasicFirst(username, script) ==
    IF Truthy(username)
    THEN IF script[1]
         THEN [_client |-> Some("JIRA"), raised |-> NoError,
               trace |-> <<Attempt("basic_auth", TRUE)>>]
         ELSE [_client |-> IF script[2] THEN Some("JIRA") ELSE None,
               raised |-> IF script[2] THEN NoError ELSE PlainError("Exception"),
               trace |-> <<Attempt("basic_auth", FALSE), Attempt("token_auth", script[2])>>]
    ELSE [_client |-> IF script[1] THEN Some("JIRA") ELSE None,
          raised |-> IF script[1] THEN NoError ELSE PlainError("Exception"),
          trace |-> <<Attempt("token_auth", script[1])>>]

\* JiraClient._initialize_client() with config.username: what self._client
\* holds in the end, what is raised, and the JIRA(...) calls made.
InitializeClient(username, script) ==
    IF Truthy(username)
    THEN IF script[1]
         THEN [_client |-> Some("JIRA"), raised |-> NoError,
               trace |-> <<Attempt("token_auth", TRUE)>>]
         ELSE [_client |-> IF script[2] THEN Some("JIRA") ELSE None,
               raised |-> IF script[2] THEN NoError ELSE PlainError("Exception"),
               trace |-> <<Attempt("token_auth", FALSE), Attempt("basic_auth", script[2])>>]
    ELSE [_client |-> IF script[1] THEN Some("JIRA") ELSE None,
          raised |-> IF script[1] THEN NoError ELSE PlainError("Exception"),
          trace |-> <<Attempt("token_auth", script[1])>>]

\* execute_jql on an object whose _client is self_client: without a JIRA
\* instance the property client raises inside the try block at every
\* attempt, no search is made, and the attempts run out.
ExecuteJqlOf(self_client, jql_query, max_results, script) ==
    IF IsNone(self_client)
    THEN [status |-> "RetryError", value |-> None,
          message |-> RetryErrorText([status |-> "JIRAError"]),
          trace |-> <<Raising("execute_jql", <<jql_query, max_results>>, "RetryError",
                              RetryErrorText([status |-> "JIRAError"]))>>]
    ELSE execute_jql(jql_query, max_results, script)

\* ------------------------------------------------------------ JiraMCPServer

\* arguments.get("max_results", 50)
DefaultMaxResults == 50
\* available_queries[:5]
SuggestionLimit == 5

\* CallToolResult(content=[TextContent(type="text", text=text)], isError=...)
CallToolResult(text, isError) == [isError |-> isError, text |-> text]

\* What a handler did: the result it returned and the calls it made.
Handled(r, calls) == [reply |-> Some(r), trace |-> calls, raised |-> NoError]

\* The lines of one issue.  The first line starts with a ticket sign.
IssueBlock(issue) ==
    Concat(<< <<"* ">>, issue.key, <<": ">>, issue.summary, <<NL>>,
              <<"   Status: ">>, issue.status, <<NL>>,
              <<"   Type: ">>, issue.issuetype, <<NL>>,
              <<"   Project: ">>, issue.project, <<NL>>,
              IF Truthy(issue.assignee)
              THEN <<"   Assignee: ">> \o Val(issue.assignee) \o <<NL>> ELSE <<>>,
              IF Truthy(issue.priority)
              THEN <<"   Priority: ">> \o Val(issue.priority) \o <<NL>> ELSE <<>>,
              <<"   Created: ">>, issue.created, <<NL, NL>> >>)

\* The shared part of the output written with the limit in the place of
\* the total.
ResultsTextByLimit(results) ==
    <<"Total Results: ">> \o Str(results.max_results) \o <<NL, NL>>
        \o (IF results.issues # <<>>
            THEN Concat([i \in 1..Len(results.issues) |-> IssueBlock(results.issues[i])])
            ELSE <<"No issues found matching the query.", NL>>)

\* The part of the output both query tools share: the total and the issues.
ResultsText(results) ==
    <<"Total Results: ">> \o Str(results.total) \o <<NL, NL>>
        \o (IF results.issues # <<>>
            THEN Concat([i \in 1..Len(results.issues) |-> IssueBlock(results.issues[i])])
            ELSE <<"No issues found matching the query.", NL>>)

\* ServerConfig.max_results, the configured cap, at its default.
ServerMaxResults == 100

\* _execute_jql_tool written to keep the limit between 1 and the configured
\* cap.
ExecuteJqlToolCapped(arguments, script) ==
    LET jql == arguments.jql
        asked == IF IsNone(arguments.max_results) THEN DefaultMaxResults
                 ELSE Val(arguments.max_results)
        max_results == IF asked < 1 THEN 1
                       ELSE IF asked > ServerMaxResults THEN ServerMaxResults ELSE asked
    IN IF ~Truthy(jql)
       THEN Handled(CallToolResult(<<"JQL query is required">>, TRUE), <<>>)
       ELSE LET r == execute_jql(Val(jql), max_results, script)
            IN IF r.status = "ok"
               THEN Handled(CallToolResult(<<"JQL Query: ">> \o Val(jql) \o <<NL>>
                                               \o ResultsText(Val(r.value)),
                                           FALSE),
                            r.trace)
               ELSE Handled(CallToolResult(<<"Failed to execute JQL query: ">> \o r.message,
                                           TRUE),
                            r.trace)

\* _execute_jql_tool(arguments), the tracker answering by script.
ExecuteJqlTool(arguments, script) ==
    LET jql == arguments.jql
        max_results == IF IsNone(arguments.max_results) THEN DefaultMaxResults
                       ELSE Val(arguments.max_results)
    IN IF ~Truthy(jql)
       THEN Handled(CallToolResult(<<"JQL query is required">>, TRUE), <<>>)
       ELSE LET r == execute_jql(Val(jql), max_results, script)
            IN IF r.status = "ok"
               THEN Handled(CallToolResult(<<"JQL Query: ">> \o Val(jql) \o <<NL>>
                                               \o ResultsText(Val(r.value)),
                                           FALSE),
                            r.trace)
               ELSE Handled(CallToolResult(<<"Failed to execute JQL query: ">> \o r.message,
                                           TRUE),
                            r.trace)

\* A question argument that is no string but the integer 5 (the handler
\* takes what the client sent), and str() of the AttributeError that
\* question.lower() raises on it inside get_jql_for_question.
NotAString == <<"<int 5>">>
NoLower == <<"'int' object has no attribute 'lower'">>

\* The suggestions written without the slice: every description is listed.
AllSuggestions(available_queries) ==
    Join(<<NL>>, [i \in 1..Len(available_queries) |->
                    <<"- ">> \o available_queries[i].description])

\* "\n".join([f"- {mapping.description}" for mapping in available_queries[:5]])
Suggestions(available_queries) ==
    LET shown == SubSeq(available_queries, 1,
                        IF Len(available_queries) < SuggestionLimit
                        THEN Len(available_queries) ELSE SuggestionLimit)
    IN Join(<<NL>>, [i \in 1..Len(shown) |-> <<"- ">> \o shown[i].description])

\* The try block of _answer_question_tool for a question that passed the
\* check, against the mapping objects ms.
AnswerQuestion(text, max_results, ms, script) ==
    LET jql == IF text = NotAString THEN None ELSE GetJql(ms, text)
        asked == <<Call("get_jql_for_question", <<text>>, jql)>>
    IN IF text = NotAString
       THEN Handled(CallToolResult(<<"Failed to answer question: ">> \o NoLower, TRUE),
                    asked)
       ELSE IF ~Truthy(jql)
       THEN LET available_queries == ms
                suggestions == Suggestions(available_queries)
            IN Handled(CallToolResult(
                           Concat(<< <<"Could not find a JQL query for your question: '">>,
                                     text, <<"'", NL, NL>>,
                                     <<"Available query types:", NL>>, suggestions, <<NL, NL>>,
                                     <<"Try rephrasing your question or use the 'execute_jql' tool directly.">> >>),
                           FALSE),
                       asked \o <<Call("list_available_queries", <<>>, None)>>)
       ELSE LET r == execute_jql(Val(jql), max_results, script)
            IN IF r.status = "ok"
               THEN Handled(CallToolResult(
                                Concat(<< <<"Question: ">>, text, <<NL>>,
                                          <<"Matched JQL: ">>, Val(jql), <<NL>>,
                                          ResultsText(Val(r.value)) >>),
                                FALSE),
                            asked \o r.trace)
               ELSE Handled(CallToolResult(<<"Failed to answer question: ">> \o r.message,
                                           TRUE),
                            asked \o r.trace)

\* _answer_question_tool written to turn away only a question that is not
\* there: an empty one is looked up like any other text.
AnswerAnyText(arguments, ms, script) ==
    IF IsNone(arguments.question)
    THEN Handled(CallToolResult(<<"Question is required">>, TRUE), <<>>)
    ELSE AnswerQuestion(Val(arguments.question),
                        IF IsNone(arguments.max_results) THEN DefaultMaxResults
                        ELSE Val(arguments.max_results),
                        ms, script)

\* _answer_question_tool(arguments)
AnswerQuestionTool(arguments, ms, script) ==
    LET q == arguments.question
        max_results == IF IsNone(arguments.max_results) THEN DefaultMaxResults
                       ELSE Val(arguments.max_results)
    IN IF ~Truthy(q)
       THEN Handled(CallToolResult(<<"Question is required">>, TRUE), <<>>)
       ELSE AnswerQuestion(Val(q), max_results, ms, script)

\* The lines of one project.  The first line starts with a folder sign.
ProjectBlock(project) ==
    Concat(<< <<"# ">>, project.key, <<": ">>, project.name, <<NL>>,
              IF project.description # <<>>
              THEN <<"   Description: ">> \o project.description \o <<NL>> ELSE <<>>,
              IF Truthy(project.lead)
              THEN <<"   Lead: ">> \o Val(project.lead) \o <<NL>> ELSE <<>>,
              <<NL>> >>)

\* _list_projects_tool() written to show an empty listing when the projects
\* cannot be fetched.
ListProjectsOrNone(projects) ==
    LET r == get_projects(projects)
        calls == <<Call("get_projects", <<>>,
                        IF r.status = "ok" THEN Some(r.value) ELSE None)>>
    IN Handled(CallToolResult(
                   <<"Available JIRA Projects:", NL, NL>>
                       \o Concat([i \in 1..Len(r.value) |-> ProjectBlock(r.value[i])]),
                   FALSE),
               calls)

\* _list_projects_tool()
ListProjectsTool(projects) ==
    LET r == get_projects(projects)
        calls == <<Call("get_projects", <<>>,
                        IF r.status = "ok" THEN Some(r.value) ELSE None)>>
    IN IF r.status = "ok"
       THEN Handled(CallToolResult(
                        <<"Available JIRA Projects:", NL, NL>>
                            \o Concat([i \in 1..Len(r.value) |-> ProjectBlock(r.value[i])]),
                        FALSE),
                    calls)
       ELSE Handled(CallToolResult(<<"Failed to list projects: ">> \o r.message, TRUE),
                    calls)

\* The lines of one mapping written to show the examples line for every
\* mapping that has a list of examples, an empty one included.
MappingBlockWithList(mapping) ==
    Concat(<< <<"= ">>, mapping.description, <<NL>>,
              <<"   JQL: ">>, mapping.jql_query, <<NL>>,
              <<"   Patterns: ">>, Join(<<", ">>, mapping.question_patterns), <<NL>>,
              IF ~IsNone(mapping.examples)
              THEN <<"   Examples: ">> \o Join(<<", ">>, Val(mapping.examples)) \o <<NL>>
              ELSE <<>>,
              <<NL>> >>)

\* The lines of one mapping.  The first line starts with a clipboard sign.
MappingBlock(mapping) ==
    Concat(<< <<"= ">>, mapping.description, <<NL>>,
              <<"   JQL: ">>, mapping.jql_query, <<NL>>,
              <<"   Patterns: ">>, Join(<<", ">>, mapping.question_patterns), <<NL>>,
              IF ~IsNone(mapping.examples) /\ Val(mapping.examples) # <<>>
              THEN <<"   Examples: ">> \o Join(<<", ">>, Val(mapping.examples)) \o <<NL>>
              ELSE <<>>,
              <<NL>> >>)

\* _list_knowledge_queries_tool()
ListKnowledgeQueriesTool(ms) ==
    LET calls == <<Call("list_available_queries", <<>>, None)>>
    IN IF ms = <<>>
       THEN Handled(CallToolResult(
                        <<"No query mappings found in knowledge store. ",
                          "Please check your knowledge store configuration.">>,
                        FALSE),
                    calls)
       ELSE Handled(CallToolResult(
                        <<"Available Query Patterns:", NL, NL>>
                            \o Concat([i \in 1..Len(ms) |-> MappingBlock(ms[i])]),
                        FALSE),
                    calls)

\* _test_connection_tool() written to report the outcome in the text only.
TestConnectionUnflagged(server_info) ==
    LET is_connected == test_connection(server_info)
        calls == <<Call("test_connection", <<>>, Some(is_connected))>>
    IN IF is_connected
       THEN Handled(CallToolResult(<<"JIRA connection test successful!">>, FALSE), calls)
       ELSE Handled(CallToolResult(
                        <<"JIRA connection test failed. Please check your configuration.">>,
                        FALSE),
                    calls)

\* _test_connection_tool().  Its texts start with a check or a cross sign.
\* jira_client.test_connection() returns False where server_info() raises
\* and raises nothing itself, so the except clause is not entered.
TestConnectionTool(server_info) ==
    LET calls == <<Call("test_connection", <<>>, Some(test_connection(server_info)))>>
    IN IF test_connection(server_info)
       THEN Handled(CallToolResult(<<"JIRA connection test successful!">>, FALSE), calls)
       ELSE Handled(CallToolResult(
                        <<"JIRA connection test failed. Please check your configuration.">>,
                        TRUE),
                    calls)

\* The dispatch written with the last tool as the default: a name that is
\* none of the other four runs the connection test.
DispatchByDefault(name, arguments, ms, world) ==
    CASE name = "execute_jql" -> ExecuteJqlTool(arguments, world.searches)
      [] name = "answer_question" -> AnswerQuestionTool(arguments, ms, world.searches)
      [] name = "list_projects" -> ListProjectsTool(world.projects)
      [] name = "list_knowledge_queries" -> ListKnowledgeQueriesTool(ms)
      [] OTHER -> TestConnectionTool(world.server_info)

\* The try block of handle_call_tool(name, arguments) against the mapping
\* objects ms, in a world that answers the calls of the handlers.
Dispatch(name, arguments, ms, world) ==
    CASE name = "execute_jql" -> ExecuteJqlTool(arguments, world.searches)
      [] name = "answer_question" -> AnswerQuestionTool(arguments, ms, world.searches)
      [] name = "list_projects" -> ListProjectsTool(world.projects)
      [] name = "list_knowledge_queries" -> ListKnowledgeQueriesTool(ms)
      [] name = "test_connection" -> TestConnectionTool(world.server_info)
      [] OTHER -> Handled(CallToolResult(<<"Unknown tool: ", name>>, TRUE), <<>>)

\* handle_call_tool(name, arguments): what a handler raises past its own
\* try block is caught here and returned as an error result.  With
\* arguments that are a dictionary no handler does: each catches what its
\* calls raise.
HandleCallTool(name, arguments, ms, world) ==
    LET done == Dispatch(name, arguments, ms, world)
    IN IF done.raised = NoError THEN done
       ELSE Handled(CallToolResult(<<"Error executing ", name, ": ">>
                                       \o Val(done.raised).message,
                                   TRUE),
                    done.trace)

\* The issues and projects of the tracker.
Issue1 ==
    [key |-> <<"BUG-1">>, summary |-> <<"s1">>, status |-> <<"Open">>,
     assignee |-> None, reporter |-> None, created |-> <<"t1">>, updated |-> <<"t1">>,
     priority |-> None, issuetype |-> <<"Bug">>, project |-> <<"BUG">>,
     description |-> None]
Issue2 ==
    [key |-> <<"OPS-2">>, summary |-> <<"s2">>, status |-> <<"Done">>,
     assignee |-> Some(<<"Ann">>), reporter |-> Some(<<"Bob">>),
     created |-> <<"t2">>, updated |-> <<"t3">>,
     priority |-> Some(<<"High">>), issuetype |-> <<"Task">>, project |-> <<"OPS">>,
     description |-> Some(<<"text">>)]
Project1 ==
    [key |-> <<"BUG">>, name |-> <<"Bugs">>, description |-> <<>>, lead |-> None]
Project2 ==
    [key |-> <<"OPS">>, name |-> <<"Operations">>, description |-> <<"ops">>,
     lead |-> Some(<<"Ann">>)]

SearchAnswers == {Found(<<>>), Found(<<Issue1, Issue2>>)}
SearchFailures == {Rejects(<<"bad jql">>), Breaks(<<"timeout">>)}

\* What the tracker answers to the searches of one execute_jql call: failures
\* up to an answer, or StopAfterAttempt failures.
Scripts ==
    UNION {{f \o <<a>> : f \in [1..k -> SearchFailures], a \in SearchAnswers} :
              k \in 0..(StopAfterAttempt - 1)}
        \cup [1..StopAfterAttempt -> SearchFailures]

ProjectAnswers ==
    {[kind |-> "projects", items |-> <<>>, text |-> <<>>],
     [kind |-> "projects", items |-> <<Project1, Project2>>, text |-> <<>>],
     [kind |-> "JIRAError", items |-> <<>>, text |-> <<"forbidden">>]}

World(searches, projects, server_info) ==
    [searches |-> searches, projects |-> projects, server_info |-> server_info]

\* The argument bags: a key that is missing is None.
Arguments(jql, q, max_results) ==
    [jql |-> jql, question |-> q, max_results |-> max_results]

NoArguments == Arguments(None, None, None)

\* A max_results argument.
Limit == Some(10)
\* max_results arguments outside the range the tool's schema advertises
\* (1..1000) and above the configured cap.
OverLimit == Some(5000)
UnderLimit == Some(0)

ToolNames ==
    {"execute_jql", "answer_question", "list_projects", "list_knowledge_queries",
     "test_connection"}

\* The tool calls a client sends: the five tools, the query tools with their
\* argument missing, empty and given, a question that is no string, and a
\* name that is no tool.
Requests ==
    {[name |-> "execute_jql", arguments |-> Arguments(j, None, None)] :
        j \in {None, Some(<<>>), Some(<<"jql1">>)}}
    \cup {[name |-> "execute_jql", arguments |-> Arguments(Some(<<"jql1">>), None, l)] :
            l \in {OverLimit, UnderLimit}}
    \cup {[name |-> "answer_question", arguments |-> Arguments(None, q, None)] :
            q \in {None, Some(<<>>), Some(<<"b">>), Some(<<" ", "A">>), Some(<<" ", " ">>),
                   Some(NotAString)}}
    \cup {[name |-> "answer_question", arguments |-> Arguments(None, q, Limit)] :
            q \in {Some(<<>>), Some(<<" ", " ">>)}}
    \cup {[name |-> "answer_question", arguments |-> Arguments(None, Some(<<"b">>), OverLimit)]}
    \cup {[name |-> n, arguments |-> NoArguments] :
            n \in (ToolNames \ {"execute_jql", "answer_question"})
                    \cup {"drop_table", "Execute_JQL", ""}}
    \cup {[name |-> "drop_table", arguments |-> Arguments(Some(<<"jql1">>), Some(<<"b">>), None)]}

\* The worlds that differ in what the handling of request r against the
\* mapping objects ms can see: the tracker's answers to the searches of a
\* query that was given or found, its projects, its server_info().
WorldsFor(r, ms) ==
    LET calm == World(<<Found(<<>>)>>, CHOOSE p \in ProjectAnswers : p.items # <<>>, TRUE)
        q == r.arguments.question
    IN CASE r.name = "execute_jql" /\ Truthy(r.arguments.jql) ->
                {[calm EXCEPT !.searches = s] : s \in Scripts}
         [] r.name = "answer_question" /\ Truthy(q) /\ q # Some(NotAString)
                /\ ~IsNone(GetJql(ms, Val(q))) ->
                {[calm EXCEPT !.searches = s] : s \in Scripts}
         [] r.name = "list_projects" -> {[calm EXCEPT !.projects = p] : p \in ProjectAnswers}
         [] r.name = "test_connection" -> {[calm EXCEPT !.server_info = x] : x \in BOOLEAN}
         [] OTHER -> {calm}

\* One tool call by a dispatcher that reloads the store from the file before
\* it dispatches, keeping the old mappings when the load fails.
handle_call_tool_reloading ==
    /\ pc = "serving"
    /\ constructed
    /\ LET out == ReloadOutcome(doc)
           new == IF IsNone(out.assign)
                  THEN [heap |-> heap, mappings |-> mappings, listed |-> listed]
                  ELSE Assigned(heap, listed, Val(out.assign))
           ms == Deref(new.heap, new.mappings)
       IN /\ mappings' = new.mappings
          /\ heap' = new.heap
          /\ listed' = new.listed
          /\ \E r \in Requests : \E world \in WorldsFor(r, ms) :
                LET done == HandleCallTool(r.name, r.arguments, ms, world)
                IN /\ request' = Some(r)
                   /\ reply' = done.reply
                   /\ trace' = done.trace
                   /\ raised' = done.raised
    /\ op' = "call_tool"
    /\ UNCHANGED <<doc, constructed, question, result, seen, pc, steps, client, connected, reader, loader>>

\* One tool call, from the request to the result handed back.
handle_call_tool ==
    /\ pc = "serving"
    /\ constructed
    /\ \E r \in Requests : \E world \in WorldsFor(r, Contents) :
          LET done == HandleCallTool(r.name, r.arguments, Contents, world)
          IN /\ request' = Some(r)
             /\ reply' = done.reply
             /\ trace' = done.trace
             /\ raised' = done.raised
    /\ op' = "call_tool"
    /\ UNCHANGED <<doc, constructed, mappings, heap, listed, question, result, seen, pc, steps, client, connected, reader, loader>>

\* The i-th record of a long document: its own query and description, one
\* pattern, and by turns no examples key, an empty list of examples and a
\* list of two.
LongRecord(i, pattern) ==
    YMap(<<F("question_patterns", Strs(<<pattern>>)),
           F("jql_query", YStr(<<"q", ToString(i)>>)),
           F("description", YStr(<<"d", ToString(i)>>))>>
         \o (CASE i % 3 = 1 -> <<>>
               [] i % 3 = 2 -> <<F("examples", Strs(<<>>))>>
               [] OTHER -> <<F("examples", Strs(<< <<"e1">>, <<"e2">> >>))>>))

\* A store constructed from a file of up to MaxStore such records.
InitLong ==
    /\ \E n \in 0..MaxStore : \E pattern \in {<<"a">>, <<"b">>} :
          /\ doc = QueriesFile([i \in 1..n |-> LongRecord(i, pattern)])
          /\ LET new == Assigned(EmptyHeap, None, Val(ReloadOutcome(doc).assign))
             IN /\ mappings = new.mappings
                /\ heap = new.heap
    /\ constructed = TRUE
    /\ listed = None
    /\ op = "construct"
    /\ question = <<>>
    /\ result = None
    /\ raised = NoError
    /\ seen = [x \in Questions |-> None]
    /\ request = None
    /\ reply = None
    /\ trace = <<>>
    /\ pc = "serving"
    /\ steps = Started
    /\ client = Initialized
    /\ connected = None
    /\ reader = NoReader
    /\ loader = NoLoader

\* The server: a store constructed from a file of valid records, and tool
\* calls.
InitTools == InitCalls \/ InitLong

NextTools == handle_call_tool

SpecTools == InitTools /\ [][NextTools]_vars

\* ------------------------------------------------ KnowledgeStoreFactory

\* The factory written to fall back on the default path when no file_path is
\* given.
CreateStoreDefaultPath(store_type, path, d) ==
    IF store_type = "yaml"
    THEN ReloadOutcome(d)
    ELSE [assign |-> None,
          raised |-> Some([type |-> "ValueError",
                           message |-> <<"Unsupported knowledge store type: ", store_type>>])]

\* KnowledgeStoreFactory.create_store(store_type, file_path=path) with the
\* file d at the path: what the new store's load assigns (None: no store
\* loaded anything) and what the call raises.  path None: the keyword is
\* not given.
CreateStore(store_type, path, d) ==
    IF store_type = "yaml"
    THEN IF ~Truthy(path)
         THEN [assign |-> None,
               raised |-> Some([type |-> "ValueError",
                                message |-> <<"file_path is required for YAML knowledge store">>])]
         ELSE ReloadOutcome(d)
    ELSE [assign |-> None,
          raised |-> Some([type |-> "ValueError",
                           message |-> <<"Unsupported knowledge store type: ", store_type>>])]

\* The store types and paths a caller of the factory passes.
StoreTypes == {"yaml", "YAML", "json", ""}
Paths == {None, Some(<<>>), Some(file_path)}

\* KnowledgeStoreFactory.create_store(...): the store object is the one the
\* call returned, if it returned.
create_store ==
    /\ \E store_type \in StoreTypes : \E path \in Paths :
          LET out == CreateStore(store_type, path, doc)
              vs == IF IsNone(out.assign) THEN <<>> ELSE Val(out.assign)
              new == Assigned(heap, listed, vs)
          IN /\ request' = Some([name |-> "create_store",
                                  arguments |-> [store_type |-> store_type, file_path |-> path]])
             /\ constructed' = IsNone(out.raised)
             /\ mappings' = new.mappings
             /\ heap' = new.heap
             /\ listed' = new.listed
             /\ raised' = out.raised
    /\ op' = "create_store"
    /\ UNCHANGED <<doc, question, result, seen, reply, trace, pc, steps, client, connected, reader, loader>>

\* The factory against every kind of document.
NextFactory == WriteFile \/ AppendRecord \/ create_store

SpecFactory == Init /\ [][NextFactory]_vars

\* ------------------------------------------------------ threads on a store

\* The files a reload finds while a reader is at work.
RaceFiles ==
    {Absent, Malformed, QueriesFile(<<RecA, RecB>>), QueriesFile(<<RecC, RecA>>)}

\* The file is rewritten.
EditWhileReading ==
    /\ \E d \in RaceFiles : doc' = d
    /\ op' = "edit"
    /\ UNCHANGED <<constructed, mappings, heap, listed, question, result, raised, seen,
                   request, reply, trace, pc, steps, client, connected, reader, loader>>

\* A thread enters get_jql_for_question(q): it normalizes the question and
\* `for mapping in self._mappings` evaluates self._mappings once, to the
\* list object the loop then walks.
StartRead ==
    /\ constructed
    /\ reader.pc # "scanning"
    /\ \E q \in Questions :
          /\ question' = q
          /\ reader' = [pc |-> "scanning", text |-> q, pos |-> 1, attached |-> TRUE,
                         held |-> <<>>,
                         versions |-> IF loader.pc = "filling"
                                      THEN {loader.before, loader.built}
                                      ELSE {Contents}]
    /\ op' = "get_jql_for_question"
    /\ UNCHANGED <<doc, constructed, mappings, heap, listed, result, raised, seen,
                   request, reply, trace, pc, steps, client, connected, loader>>

\* One turn of the loop: the list iterator yields the element at its
\* position of the list object as it is now, or stops past its end; the
\* patterns of the mapping are tried.
ScanStep ==
    /\ reader.pc = "scanning"
    /\ LET walked == IF reader.attached THEN Contents ELSE reader.held
       IN IF reader.pos > Len(walked)
          THEN /\ result' = None
               /\ reader' = [reader EXCEPT !.pc = "done"]
          ELSE IF AnyPatternIn(walked[reader.pos].question_patterns,
                               Strip(Lower(reader.text)))
          THEN /\ result' = Some(walked[reader.pos].jql_query)
               /\ reader' = [reader EXCEPT !.pc = "done"]
          ELSE /\ result' = result
               /\ reader' = [reader EXCEPT !.pos = @ + 1]
    /\ op' = "scan"
    /\ UNCHANGED <<doc, constructed, mappings, heap, listed, question, raised, seen,
                   request, reply, trace, pc, steps, client, connected, loader>>

\* A thread enters reload(): it reads the file and builds the new list, or
\* raises and assigns nothing.
BeginReload ==
    /\ constructed
    /\ loader.pc = "idle"
    /\ LET out == ReloadOutcome(doc)
       IN /\ raised' = out.raised
          /\ loader' = IF IsNone(out.assign) THEN loader
                        ELSE [pc |-> "built", built |-> Val(out.assign), before |-> Contents]
    /\ op' = "reload"
    /\ UNCHANGED <<doc, constructed, mappings, heap, listed, question, result, seen,
                   request, reply, trace, pc, steps, client, connected, reader>>

\* reload() written to refill the list it has: self._mappings.clear(), then
\* one append per turn.
FinishReloadInPlace ==
    /\ loader.pc \in {"built", "filling"}
    /\ LET filled == IF loader.pc = "built" THEN <<>>
                     ELSE SubSeq(loader.built, 1, Len(mappings) + 1)
           new == Assigned(heap, listed, filled)
           last == loader.pc = "filling" /\ Len(filled) = Len(loader.built)
       IN /\ mappings' = new.mappings
          /\ heap' = new.heap
          /\ listed' = new.listed
          /\ loader' = IF last \/ (loader.pc = "built" /\ loader.built = <<>>)
                        THEN NoLoader ELSE [loader EXCEPT !.pc = "filling"]
          /\ reader' = IF reader.pc = "scanning"
                        THEN [reader EXCEPT !.versions = @ \cup {loader.built}]
                        ELSE reader
    /\ op' = "reload"
    /\ UNCHANGED <<doc, constructed, question, result, raised, seen,
                   request, reply, trace, pc, steps, client, connected>>

\* reload(), the assignment: self._mappings refers to the new list; the
\* list a scan walks is left as it was.
FinishReload ==
    /\ loader.pc = "built"
    /\ LET new == Assigned(heap, listed, loader.built)
       IN /\ mappings' = new.mappings
          /\ heap' = new.heap
          /\ listed' = new.listed
    /\ loader' = NoLoader
    /\ reader' = IF reader.pc # "scanning" THEN reader
                  ELSE IF reader.attached
                  THEN [reader EXCEPT !.attached = FALSE, !.held = Contents,
                                      !.versions = @ \cup {loader.built}]
                  ELSE [reader EXCEPT !.versions = @ \cup {loader.built}]
    /\ op' = "reload"
    /\ UNCHANGED <<doc, constructed, question, result, raised, seen,
                   request, reply, trace, pc, steps, client, connected>>

\* A store constructed from one of the files; no thread is inside a call.
InitRace ==
    /\ doc \in RaceFiles \ {Malformed}
    /\ LET new == Assigned(EmptyHeap, None, Val(ReloadOutcome(doc).assign))
       IN /\ mappings = new.mappings
          /\ heap = new.heap
    /\ constructed = TRUE
    /\ listed = None
    /\ op = "construct"
    /\ question = <<>>
    /\ result = None
    /\ raised = NoError
    /\ seen = [x \in Questions |-> None]
    /\ request = None
    /\ reply = None
    /\ trace = <<>>
    /\ pc = "none"
    /\ steps = <<>>
    /\ client = None
    /\ connected = None
    /\ reader = NoReader
    /\ loader = NoLoader

\* Threads of a multi-threaded host on one store: one reloads, one asks,
\* one lists, while the file changes.
NextRace ==
    \/ EditWhileReading \/ StartRead \/ ScanStep \/ BeginReload \/ FinishReload
    \/ list_available_queries

SpecRace == InitRace /\ [][NextRace]_vars

\* ------------------------------------------------- the JiraClient object

\* JiraClient(config): __init__ sets _client to None and calls
\* _initialize_client(); when that raises, the caller gets no object.
JiraClient ==
    /\ \E username \in Usernames : \E script \in AuthScripts :
          LET jira == InitializeClient(username, script)
          IN /\ request' = Some([name |-> "JiraClient", arguments |-> [username |-> username]])
             /\ client' = IF jira.raised = NoError THEN Some([_client |-> jira._client])
                           ELSE None
             /\ raised' = jira.raised
             /\ trace' = jira.trace
    /\ connected' = None
    /\ op' = "JiraClient"
    /\ UNCHANGED <<doc, constructed, mappings, heap, listed, question, result, seen, reply,
                   pc, steps, reader, loader>>

\* client.test_connection()
TestConnectionCall ==
    /\ client # None
    /\ \E server_info \in BOOLEAN :
          LET r == TestConnection(Val(client)._client, server_info)
          IN /\ connected' = r.out
             /\ raised' = r.raised
             /\ trace' = r.trace
    /\ op' = "test_connection"
    /\ UNCHANGED <<doc, constructed, mappings, heap, listed, question, result, seen,
                   request, reply, pc, steps, client, reader, loader>>

\* client.execute_jql(jql_query, max_results)
ExecuteJqlCall ==
    /\ client # None
    /\ \E script \in Scripts : \E max_results \in {DefaultMaxResults, Val(Limit)} :
          LET r == ExecuteJqlOf(Val(client)._client, <<"jql1">>, max_results, script)
          IN /\ trace' = r.trace
             /\ raised' = IF r.status = "ok" THEN NoError
                           ELSE Some([type |-> r.status, message |-> r.message])
    /\ connected' = None
    /\ op' = "execute_jql"
    /\ UNCHANGED <<doc, constructed, mappings, heap, listed, question, result, seen,
                   request, reply, pc, steps, client, reader, loader>>

\* No JiraClient object yet, or one whose _client holds nothing.
InitClient ==
    /\ doc = Absent
    /\ constructed = FALSE
    /\ mappings = <<>>
    /\ heap = EmptyHeap
    /\ listed = None
    /\ op = "start"
    /\ question = <<>>
    /\ result = None
    /\ raised = NoError
    /\ seen = [x \in Questions |-> None]
    /\ request = None
    /\ reply = None
    /\ trace = <<>>
    /\ pc = "none"
    /\ steps = <<>>
    /\ client \in {None, Uninitialized}
    /\ connected = None
    /\ reader = NoReader
    /\ loader = NoLoader

NextClient == JiraClient \/ TestConnectionCall \/ ExecuteJqlCall

SpecClient == InitClient /\ [][NextClient]_vars

\* ------------------------------------------------------------------ startup

\* The files the process may find at file_path while it starts: none, one
\* that is not YAML, one that is not a mapping, one with no record, one with
\* a record QueryMapping accepts and one with a record it rejects.
StartupFiles ==
    {Absent, Malformed, File(YInt(42)), QueriesFile(<<>>), QueriesFile(<<RecB>>),
     QueriesFile(<<Without(RecA, "jql_query")>>)}

\* The file is rewritten while the process starts.
EditAtStartup ==
    /\ pc \in {"start", "constructed", "checked"}
    /\ \E d \in StartupFiles : doc' = d
    /\ op' = "edit"
    /\ UNCHANGED <<constructed, mappings, heap, listed, question, result, raised, seen,
                   request, reply, trace, pc, steps, client, connected, reader, loader>>

\* cli stdio, run_server up to JiraMCPServer(config): __init__ builds the
\* JiraClient, whose constructor raises when JIRA() does, and then the
\* store, whose constructor raises when the load does.  run_server catches
\* any exception and exits with status 1.
run_server ==
    /\ pc = "start"
    /\ \E username \in Usernames : \E script \in AuthScripts :
          LET jira == InitializeClient(username, script)
              out == CreateStore("yaml", Some(file_path), doc)
              vs == IF IsNone(out.assign) THEN <<>> ELSE Val(out.assign)
              new == Assigned(heap, listed, vs)
          IN IF jira.raised # NoError
             THEN /\ steps' = Append(steps, Step("JiraClient", None, jira.raised))
                  /\ pc' = "exited 1"
                  /\ raised' = jira.raised
                  /\ client' = None
                  /\ UNCHANGED <<constructed, mappings, heap, listed>>
             ELSE /\ steps' = steps \o <<Step("JiraClient", None, NoError),
                                         Step("create_store", None, out.raised)>>
                  /\ pc' = IF IsNone(out.raised) THEN "constructed" ELSE "exited 1"
                  /\ client' = IF IsNone(out.raised) THEN Some([_client |-> jira._client])
                                ELSE None
                  /\ constructed' = IsNone(out.raised)
                  /\ mappings' = new.mappings
                  /\ heap' = new.heap
                  /\ listed' = new.listed
                  /\ raised' = out.raised
    /\ op' = "run_server"
    /\ UNCHANGED <<doc, question, result, seen, request, reply, trace, connected,
                   reader, loader>>

\* run_stdio written to log a failed connection test and go on.
TestConnectionAndGoOn ==
    /\ pc = "constructed"
    /\ \E server_info \in BOOLEAN :
          steps' = Append(steps, Step("test_connection", Some(test_connection(server_info)), NoError))
    /\ pc' = "checked"
    /\ op' = "test_connection"
    /\ UNCHANGED <<doc, constructed, mappings, heap, listed, question, result, raised, seen,
                   request, reply, trace, client, connected, reader, loader>>

\* run_stdio, the connection test: sys.exit(1) when test_connection()
\* returns False.  SystemExit is no Exception, so neither the except clause
\* here nor the one of run_server catches it.
TestConnectionAtStartup ==
    /\ pc = "constructed"
    /\ \E server_info \in BOOLEAN :
          LET is_connected == test_connection(server_info)
          IN /\ steps' = Append(steps, Step("test_connection", Some(is_connected), NoError))
             /\ pc' = IF is_connected THEN "checked" ELSE "exited 1"
    /\ op' = "test_connection"
    /\ UNCHANGED <<doc, constructed, mappings, heap, listed, question, result, raised, seen,
                   request, reply, trace, client, connected, reader, loader>>

\* run_stdio, the load: knowledge_store.reload(); an exception is logged as
\* a warning and the process goes on.
ReloadAtStartup ==
    /\ pc = "checked"
    /\ LET out == ReloadOutcome(doc)
           new == IF IsNone(out.assign)
                  THEN [heap |-> heap, mappings |-> mappings, listed |-> listed]
                  ELSE Assigned(heap, listed, Val(out.assign))
       IN /\ mappings' = new.mappings
          /\ heap' = new.heap
          /\ listed' = new.listed
          /\ raised' = NoError
          /\ steps' = Append(steps, Step("reload", None, out.raised))
    /\ pc' = "loaded"
    /\ op' = "reload"
    /\ UNCHANGED <<doc, constructed, question, result, seen, request, reply, trace,
                   client, connected, reader, loader>>

\* run_stdio, the end: the server runs on stdio and takes tool calls.
Serve ==
    /\ pc = "loaded"
    /\ pc' = "serving"
    /\ steps' = Append(steps, Step("run", None, NoError))
    /\ op' = "run"
    /\ UNCHANGED <<doc, constructed, mappings, heap, listed, question, result, raised, seen,
                   request, reply, trace, client, connected, reader, loader>>

\* A process about to start, with one of the files at file_path.
InitStartup ==
    /\ doc \in StartupFiles
    /\ constructed = FALSE
    /\ mappings = <<>>
    /\ heap = EmptyHeap
    /\ listed = None
    /\ op = "start"
    /\ question = <<>>
    /\ result = None
    /\ raised = NoError
    /\ seen = [x \in Questions |-> None]
    /\ request = None
    /\ reply = None
    /\ trace = <<>>
    /\ pc = "start"
    /\ steps = <<>>
    /\ client = None
    /\ connected = None
    /\ reader = NoReader
    /\ loader = NoLoader

NextStartup ==
    \/ EditAtStartup \/ run_server \/ TestConnectionAtStartup \/ ReloadAtStartup
    \/ Serve \/ handle_call_tool

SpecStartup == InitStartup /\ [][NextStartup]_vars

\* ------------------------------------------------------------------ serving

\* The file is rewritten while the server serves.
EditWhileServing ==
    /\ pc = "serving"
    /\ \E d \in StartupFiles : doc' = d
    /\ op' = "edit"
    /\ UNCHANGED <<constructed, mappings, heap, listed, question, result, raised, seen,
                   request, reply, trace, pc, steps, client, connected, reader, loader>>

\* A serving process whose store was loaded from a file of no record or of
\* one, and whose file may have been rewritten since.
InitServing ==
    /\ \E recs \in {<<>>, <<RecB>>} :
          LET new == Assigned(EmptyHeap, None, Val(ReloadOutcome(QueriesFile(recs)).assign))
          IN /\ mappings = new.mappings
             /\ heap = new.heap
    /\ doc \in StartupFiles
    /\ constructed = TRUE
    /\ listed = None
    /\ op = "run"
    /\ question = <<>>
    /\ result = None
    /\ raised = NoError
    /\ seen = [x \in Questions |-> None]
    /\ request = None
    /\ reply = None
    /\ trace = <<>>
    /\ pc = "serving"
    /\ steps = Started
    /\ client = Initialized
    /\ connected = None
    /\ reader = NoReader
    /\ loader = NoLoader

\* The server at work: tool calls, while the file changes.
NextServing == handle_call_tool \/ EditWhileServing

SpecServing == InitServing /\ [][NextServing]_vars

\* ------------------------------------------------------------------ claims

RequiredFields == {"question_patterns", "jql_query", "description"}

\* A record of the document fails required-field validation: it is no
\* mapping of fields, or a required field is missing or of the wrong type.
FailsValidation(r) ==
    \/ r.tag # "map"
    \/ \E f \in RequiredFields : ~HasKey(r, f)
    \/ Lookup(r, "question_patterns").tag # "seq"
    \/ \E i \in 1..Len(Lookup(r, "question_patterns").items) :
          Lookup(r, "question_patterns").items[i].tag # "str"
    \/ Lookup(r, "jql_query").tag # "str"
    \/ Lookup(r, "description").tag # "str"

\* The document is syntactically malformed, or one of its records fails
\* validation.
LoadFails(d) ==
    \/ d.exists /\ ~d.wellformed
    \/ /\ IsQueriesFile(d)
       /\ \E i \in 1..Len(RecordsOf(d)) : FailsValidation(RecordsOf(d)[i])

\* The last event was a load: a construction or a reload() (an edit of the
\* file sets op to "edit", so doc is the document that was loaded).
Loaded == op \in {"construct", "reload"}

\* C1: a reload() whose load fails (malformed document, or a record that
\* fails validation) raises to its caller and leaves the store's mappings,
\* references and values, as they were before the call.
C1_FailedReloadKeepsMappings ==
    [][(op' = "reload" /\ LoadFails(doc))
        => (raised' # NoError /\ mappings' = mappings /\ Contents' = Contents)]_vars

\* C1 witness: a reload of a document whose second record is invalid has
\* failed on a store that holds mappings.
C1_Witness ==
    /\ op = "reload" /\ raised # NoError /\ Contents # <<>>
    /\ IsQueriesFile(doc) /\ Len(RecordsOf(doc)) = 2
    /\ ~FailsValidation(RecordsOf(doc)[1]) /\ FailsValidation(RecordsOf(doc)[2])

\* The mapping a valid record of the document describes, field by field.
Verbatim(r) ==
    [question_patterns |->
        [i \in 1..Len(Lookup(r, "question_patterns").items) |->
            Lookup(r, "question_patterns").items[i].s],
     jql_query |-> Lookup(r, "jql_query").s,
     description |-> Lookup(r, "description").s,
     examples |->
        IF ~HasKey(r, "examples") \/ Lookup(r, "examples") = YNull THEN None
        ELSE Some([i \in 1..Len(Lookup(r, "examples").items) |->
                      Lookup(r, "examples").items[i].s])]

AllValid(d) ==
    /\ IsQueriesFile(d)
    /\ \A i \in 1..Len(RecordsOf(d)) : ~FailsValidation(RecordsOf(d)[i])

\* C2: after a construction or reload() against a document of N valid
\* records the call has returned normally and the store holds exactly N
\* distinct mapping objects, the i-th with the fields of the i-th record,
\* whatever it held before.
C2_LoadReplacesWithDocument ==
    (Loaded /\ AllValid(doc))
        => /\ raised = NoError
           /\ constructed
           /\ Len(mappings) = Len(RecordsOf(doc))
           /\ Cardinality({mappings[i] : i \in 1..Len(mappings)}) = Len(mappings)
           /\ \A i \in 1..Len(mappings) : Contents[i] = Verbatim(RecordsOf(doc)[i])

\* C2 witness: a reload has loaded a document that holds the same record
\* twice.
C2_Witness ==
    /\ op = "reload" /\ AllValid(doc) /\ Len(RecordsOf(doc)) = 2
    /\ RecordsOf(doc)[1] = RecordsOf(doc)[2]
    /\ Len(Contents) = 2 /\ Contents[1] = Contents[2]
    /\ ~IsNone(Contents[1].examples)

\* The document lacks the top-level "queries" key: it is no mapping, or a
\* mapping without that key.
LacksQueries(d) ==
    d.exists /\ d.wellformed /\ ~(d.data.tag = "map" /\ HasKey(d.data, "queries"))

\* C3 as claimed: a construction or reload() against an absent document, an
\* empty one or one without the top-level "queries" key returns normally and
\* leaves the store empty.
C3_NoQueriesLoadsEmpty ==
    (Loaded /\ (~doc.exists \/ LacksQueries(doc)))
        => (raised = NoError /\ constructed /\ Contents = <<>>)

\* C4 as claimed: a load of a malformed document, or of one with a record
\* that fails validation, raises the wrapped load error, which names the
\* file path and the cause.
C4_LoadFailureIsWrapped ==
    (Loaded /\ LoadFails(doc))
        => /\ raised # NoError
           /\ Val(raised).type = "ValueError"
           /\ Len(Val(raised).message) = 3
           /\ Val(raised).message[2] = file_path

\* C5 as claimed: nothing a caller does with the list it was returned
\* changes what list_available_queries() returns or what
\* get_jql_for_question() answers.
C5_ReturnedListIsDetached ==
    [][op' = "caller"
        => /\ Contents' = Contents
           /\ \A q \in Questions : GetJql(Contents', q) = GetJql(Contents, q)]_vars

\* The text without its leading and trailing blanks, and in lower case.
Trimmed(t) ==
    LET solid == {i \in 1..Len(t) : t[i] # Blank}
    IN IF solid = {} THEN <<>>
       ELSE SubSeq(t, CHOOSE i \in solid : \A j \in solid : i <= j,
                      CHOOSE i \in solid : \A j \in solid : i >= j)
Lowered(t) == [i \in 1..Len(t) |-> IF t[i] = "A" THEN "a" ELSE t[i]]

\* p occurs in s as a run of consecutive characters.
Occurs(p, s) == \E i, j \in 0..Len(s) : i <= j /\ SubSeq(s, i + 1, j) = p

\* Some pattern of mapping m, lowercased, occurs in the trimmed, lowercased t.
Hits(m, t) ==
    \E k \in 1..Len(m.question_patterns) :
        Occurs(Lowered(m.question_patterns[k]), Lowered(Trimmed(t)))

HitPositions(ms, t) == {i \in 1..Len(ms) : Hits(ms[i], t)}

\* C6: get_jql_for_question returns the query of the mapping at the lowest
\* store position that has a pattern which, lowercased, occurs in the
\* trimmed, lowercased text, and None exactly when no mapping has one.
C6_FirstMatchWins ==
    op = "get_jql_for_question"
        => LET hit == HitPositions(Contents, question)
           IN IF hit = {} THEN result = None
              ELSE result =
                     Some(Contents[CHOOSE i \in hit : \A j \in hit : i <= j].jql_query)

\* C6 witness: two mappings with different queries both match the text, the
\* second through a longer pattern than any of the first, and the first won.
C6_Witness ==
    /\ op = "get_jql_for_question"
    /\ Len(Contents) = 2
    /\ HitPositions(Contents, question) = {1, 2}
    /\ Contents[1].jql_query # Contents[2].jql_query
    /\ \E k \in 1..Len(Contents[2].question_patterns) :
          /\ Occurs(Lowered(Contents[2].question_patterns[k]), Lowered(Trimmed(question)))
          /\ \A n \in 1..Len(Contents[1].question_patterns) :
                Len(Contents[1].question_patterns[n]) < Len(Contents[2].question_patterns[k])
    /\ result = Some(Contents[1].jql_query)

\* The texts of at most MaxTextLen characters that differ from t only in
\* the case of letters and in leading and trailing blanks.
RECURSIVE CaseVariants(_)
CaseVariants(s) ==
    IF s = <<>> THEN {<<>>}
    ELSE {<<c>> \o r : c \in (IF Head(s) \in {"a", "A"} THEN {"a", "A"} ELSE {Head(s)}),
                       r \in CaseVariants(Tail(s))}

Blanks(n) == [i \in 1..n |-> Blank]

Variants(t) ==
    LET core == Trimmed(t)
    IN {Blanks(l) \o c \o Blanks(r) :
            c \in CaseVariants(core),
            l \in 0..(MaxTextLen - Len(core)),
            r \in 0..(MaxTextLen - Len(core))}

\* C7: the answer to a question is the answer to every text that differs
\* from it only in letter case and in leading or trailing blanks.
C7_CaseAndMarginsIgnored ==
    op = "get_jql_for_question"
        => \A t \in Variants(question) : GetJql(Contents, t) = result

\* C7 witness: a text with a capital letter and a leading blank was
\* answered with a query, and it has a variant other than itself.
C7_Witness ==
    /\ op = "get_jql_for_question"
    /\ ~IsNone(result)
    /\ Len(question) >= 2
    /\ question[1] = Blank
    /\ \E i \in 1..Len(question) : question[i] = "A"
    /\ Lowered(Trimmed(question)) \in Variants(question) \ {question}

\* C8: get_jql_for_question leaves the stored sequence as it was, and its
\* answer to a question is the answer the store last gave to that question,
\* whatever calls (other questions, listings, reloads of the same document
\* into new objects) came in between.
C8_AnswerDependsOnTextAndStoreOnly ==
    [][op' = "get_jql_for_question"
        => /\ mappings' = mappings
           /\ Contents' = Contents
           /\ listed' = listed
           /\ ~IsNone(seen[question']) => result' = Val(seen[question'])]_vars

\* C8 witness: both questions have been asked of a store that was also
\* listed, and the last one was answered with a query.
C8_Witness ==
    /\ op = "get_jql_for_question"
    /\ \A q \in Questions : ~IsNone(seen[q])
    /\ ~IsNone(listed)
    /\ ~IsNone(result)
    /\ Len(Contents) = 2

\* The tool call that was handled last, and its parts.
Called(name) == op = "call_tool" /\ Val(request).name = name
Args == Val(request).arguments
Answer == Val(reply)

\* An argument that is missing or the empty string.
MissingOrEmpty(a) == a = None \/ a = Some(<<>>)

\* The calls of the last invocation to one of the callees.
CallsTo(callees) == SelectSeq(trace, LAMBDA c : c.callee \in callees)

\* C9: execute_jql without a 'jql' argument or with an empty one, and
\* answer_question without a 'question' argument or with an empty one, return
\* an error-flagged result whose text is 'JQL query is required' /
\* 'Question is required', and call neither the executor nor the store's
\* matcher.
C9_MissingArgumentIsRejected ==
    /\ (Called("execute_jql") /\ MissingOrEmpty(Args.jql))
          => /\ Answer = [isError |-> TRUE, text |-> <<"JQL query is required">>]
             /\ CallsTo({"execute_jql", "search_issues", "get_jql_for_question"}) = <<>>
    /\ (Called("answer_question") /\ MissingOrEmpty(Args.question))
          => /\ Answer = [isError |-> TRUE, text |-> <<"Question is required">>]
             /\ CallsTo({"execute_jql", "search_issues", "get_jql_for_question"}) = <<>>

\* C9 witness: answer_question was called with an empty question and a
\* limit, against a store with a mapping, and was turned away.
C9_Witness ==
    /\ Called("answer_question")
    /\ Args.question = Some(<<>>)
    /\ Args.max_results # None
    /\ Contents # <<>>
    /\ Answer.isError
    /\ trace = <<>>

\* The limit of the last call: its max_results argument, 50 without one.
CallLimit == IF Args.max_results = None THEN 50 ELSE Val(Args.max_results)

\* C10 as claimed: when a pattern of a stored mapping occurs in the
\* normalized question, answer_question calls the executor exactly once, with
\* the query of the first such mapping and the call's limit, and when the
\* executor returns issues the text holds that query and the key of every
\* issue returned, whatever the query string of the mapping is.
C10_MatchRunsFirstMatchedQuery ==
    (/\ Called("answer_question")
     /\ ~MissingOrEmpty(Args.question)
     /\ Args.question # Some(NotAString)
     /\ HitPositions(Contents, Val(Args.question)) # {})
        => LET hit == HitPositions(Contents, Val(Args.question))
               matched == Contents[CHOOSE i \in hit : \A j \in hit : i <= j].jql_query
               calls == CallsTo({"execute_jql"})
           IN /\ Len(calls) = 1
              /\ calls[1].args = <<matched, CallLimit>>
              /\ ~IsNone(calls[1].out)
                    => /\ Occurs(matched, Answer.text)
                       /\ \A i \in 1..Len(Val(calls[1].out).issues) :
                             Occurs(Val(calls[1].out).issues[i].key, Answer.text)

\* The lines between the header of the suggestions and the closing advice.
SuggestionLines(descriptions) ==
    <<"Available query types:", NL>>
        \o Join(<<NL>>, [i \in 1..Len(descriptions) |-> <<"- ">> \o descriptions[i]])
        \o <<NL, NL, "Try rephrasing your question or use the 'execute_jql' tool directly.">>

\* The descriptions of the first n mappings of the store.
FirstDescriptions(n) == [i \in 1..n |-> Contents[i].description]

\* answer_question was called with a question, a text, that no stored
\* pattern matches.
Unmatched ==
    /\ Called("answer_question")
    /\ ~MissingOrEmpty(Args.question)
    /\ Args.question # Some(NotAString)
    /\ HitPositions(Contents, Val(Args.question)) = {}

\* C11: when answer_question finds no match against a store of N mappings,
\* its text names the question and lists exactly min(5, N) descriptions:
\* those of the first min(5, N) mappings, in store order.
C11_NoMatchListsFirstFive ==
    Unmatched
        => LET N == Len(Contents)
               shown == IF N < 5 THEN N ELSE 5
           IN /\ Occurs(<<"Could not find a JQL query for your question: '">>
                            \o Val(Args.question) \o <<"'">>,
                        Answer.text)
              /\ Occurs(SuggestionLines(FirstDescriptions(shown)), Answer.text)
              /\ Cardinality({i \in 1..Len(Answer.text) : Answer.text[i] = "- "}) = shown

\* C11 witness: a question without a match was asked of a store of 8
\* mappings with 8 descriptions.
C11_Witness ==
    /\ Unmatched
    /\ Len(Contents) = 8
    /\ Cardinality({Contents[i].description : i \in 1..8}) = 8
    /\ ~Answer.isError

\* C12: an answer_question call whose question matches no stored pattern
\* returns a result that is not error-flagged and calls the executor not
\* once.
C12_NoMatchIsNoErrorAndNoSearch ==
    Unmatched
        => /\ ~Answer.isError
           /\ CallsTo({"execute_jql", "search_issues"}) = <<>>

\* C12 witness: a question of blanks only, with a limit, went unmatched
\* against a store of two mappings.
C12_Witness ==
    /\ Unmatched
    /\ Val(Args.question) = <<" ", " ">>
    /\ Args.max_results # None
    /\ Len(Contents) = 2
    /\ CallsTo({"get_jql_for_question"}) # <<>>

\* A call of the last invocation to the executor or the store raised: the
\* searches of execute_jql were used up, the projects could not be fetched,
\* or the matcher was handed a question that is no string.
CallRaised ==
    \/ \E i \in 1..Len(trace) :
          trace[i].callee \in {"execute_jql", "get_projects"} /\ IsNone(trace[i].out)
    \/ \E i \in 1..Len(trace) :
          trace[i].callee = "get_jql_for_question" /\ trace[i].args = <<NotAString>>

\* C13: whatever the tool name, the arguments and the failures of the
\* executor and the store, a tool call ends with a text result and with no
\* exception handed to the host loop; the result is error-flagged when a call
\* to the executor or the store raised; and the next tool call can be
\* handled.
C13_ToolCallsEndWithAResult ==
    op = "call_tool"
        => /\ raised = NoError
           /\ ~IsNone(reply)
           /\ Answer.isError \in BOOLEAN
           /\ Answer.text # <<>>
           /\ CallRaised => Answer.isError
           /\ ENABLED handle_call_tool

\* C13 witness: the three searches of an execute_jql call failed and the
\* result says so.
C13_Witness ==
    /\ Called("execute_jql")
    /\ Len(CallsTo({"search_issues"})) = 3
    /\ CallRaised
    /\ Answer.isError
    /\ Answer.text[1] = "Failed to execute JQL query: "

\* The answers of the tracker to the searches of the last invocation that
\* were failures.
FailedSearches ==
    SelectSeq(CallsTo({"search_issues"}), LAMBDA c : Val(c.out).kind # "issues")

\* The executor's call of the last invocation failed.
ExecutorFailed ==
    \E i \in 1..Len(trace) : trace[i].callee = "execute_jql" /\ IsNone(trace[i].out)

\* C14 as claimed: when the tracker rejects the query or the network fails
\* during execute_jql or answer_question, the error-flagged text holds the
\* message of the underlying failure (of one of the failed searches, at
\* least).
C14_ErrorTextCarriesTrackerMessage ==
    ((Called("execute_jql") \/ Called("answer_question")) /\ ExecutorFailed)
        => /\ Answer.isError
           /\ \E i \in 1..Len(FailedSearches) :
                 Occurs(Val(FailedSearches[i].out).text, Answer.text)

\* C15: a tool call whose name is none of the five tool names returns an
\* error-flagged text that holds the name, calls neither the executor nor the
\* store, and leaves the store as it was.
C15_UnknownToolIsRejected ==
    [][(op' = "call_tool"
            /\ Val(request').name \notin {"execute_jql", "answer_question", "list_projects",
                                          "list_knowledge_queries", "test_connection"})
        => /\ ~IsNone(reply')
           /\ Val(reply').isError
           /\ Occurs(<<Val(request').name>>, Val(reply').text)
           /\ trace' = <<>>
           /\ mappings' = mappings
           /\ Contents' = Contents]_vars

\* C15 witness: a call named drop_table, with a query and a question among
\* its arguments, was turned away by a server whose store has mappings.
C15_Witness ==
    /\ Called("drop_table")
    /\ Args.jql # None
    /\ Args.question # None
    /\ Contents # <<>>
    /\ Answer = [isError |-> TRUE, text |-> <<"Unknown tool: ", "drop_table">>]

\* What the connectivity check of the last invocation returned.
Connected == Val(CallsTo({"test_connection"})[1].out)

\* C16: the result of test_connection is error-flagged exactly when the
\* connectivity check did not return true; when it returned true the result
\* is the success message with the error flag unset.
C16_ConnectionResultFollowsCheck ==
    Called("test_connection")
        => /\ Len(CallsTo({"test_connection"})) = 1
           /\ Answer.isError <=> ~Connected
           /\ Connected => Answer.text = <<"JIRA connection test successful!">>
           /\ ~Connected => Answer.text # <<"JIRA connection test successful!">>

\* C16 witness: the connectivity check returned false and the result is
\* error-flagged.
C16_Witness ==
    /\ Called("test_connection")
    /\ ~Connected
    /\ Answer.isError
    /\ Contents # <<>>

\* The strings of ss with ", " between each two of them.
RECURSIVE CommaJoined(_)
CommaJoined(ss) ==
    IF Len(ss) = 0 THEN <<>>
    ELSE IF Len(ss) = 1 THEN ss[1]
    ELSE ss[1] \o <<", ">> \o CommaJoined(SubSeq(ss, 2, Len(ss)))

HasExamples(m) == m.examples # None /\ Len(Val(m.examples)) > 0

\* The entry of mapping m: its description, query and patterns, and its
\* examples when it has some.
Entry(m) ==
    <<"= ">> \o m.description \o <<NL, "   JQL: ">> \o m.jql_query
        \o <<NL, "   Patterns: ">> \o CommaJoined(m.question_patterns) \o <<NL>>
        \o (IF HasExamples(m)
            THEN <<"   Examples: ">> \o CommaJoined(Val(m.examples)) \o <<NL>>
            ELSE <<>>)
        \o <<NL>>

\* The entries of the mappings ms, in their order.
RECURSIVE Entries(_)
Entries(ms) == IF Len(ms) = 0 THEN <<>> ELSE Entry(ms[1]) \o Entries(SubSeq(ms, 2, Len(ms)))

\* C17: list_knowledge_queries on an empty store returns the guidance
\* message, not error-flagged; on a store with mappings it returns, not
\* error-flagged, one entry per mapping in store order, each with the
\* description, the query and the comma-joined patterns, and with an examples
\* line exactly when the mapping has a non-empty list of examples.
C17_KnowledgeListingRendersStore ==
    Called("list_knowledge_queries")
        => /\ ~Answer.isError
           /\ Contents = <<>>
                 => Answer.text = <<"No query mappings found in knowledge store. ",
                                    "Please check your knowledge store configuration.">>
           /\ Contents # <<>>
                 => /\ Answer.text = <<"Available Query Patterns:", NL, NL>> \o Entries(Contents)
                    /\ Cardinality({i \in 1..Len(Answer.text) : Answer.text[i] = "   Examples: "})
                          = Cardinality({i \in 1..Len(Contents) : HasExamples(Contents[i])})
                    /\ Cardinality({i \in 1..Len(Answer.text) : Answer.text[i] = "= "})
                          = Len(Contents)

\* C17 witness: the listing of a store that has a mapping without examples,
\* one with an empty list of examples and one with two examples.
C17_Witness ==
    /\ Called("list_knowledge_queries")
    /\ \E i, j, k \in 1..Len(Contents) :
          /\ Contents[i].examples = None
          /\ Contents[j].examples = Some(<<>>)
          /\ HasExamples(Contents[k]) /\ Len(Val(Contents[k].examples)) = 2
    /\ Occurs(<<"e1", ", ", "e2">>, Answer.text)

\* The calls of execute_jql of the last invocation that ended with an
\* exception.
FailedExecutions ==
    SelectSeq(CallsTo({"execute_jql"}), LAMBDA c : c.error # NoError)

\* C20 as claimed: whenever execute_jql fails, its caller receives a
\* JIRAError: the tracker's own when the tracker rejected the last search,
\* and one whose message starts with 'Unexpected error' for any other
\* failure.
C20_ExecutorFailsWithJiraError ==
    \A i \in 1..Len(FailedExecutions) :
        LET e == Val(FailedExecutions[i].error)
            last == Val(FailedSearches[Len(FailedSearches)].out)
        IN /\ e.type = "JIRAError"
           /\ last.kind = "JIRAError" => e.message = last.text
           /\ last.kind # "JIRAError" => Occurs(<<"Unexpected error: ">>, e.message)

\* The positions in steps of the steps named name.
StepsOf(name) == {i \in 1..Len(steps) : steps[i].step = name}

\* The connection test of this process returned False or raised.
CheckFailed ==
    \E i \in StepsOf("test_connection") : steps[i].out # Some(TRUE) \/ steps[i].error # NoError

LoadFailedAtStartup ==
    \E i \in StepsOf("create_store") \cup StepsOf("reload") : steps[i].error # NoError

\* C19 as claimed: when a load done during startup (the one of the store's
\* construction, or run_stdio's reload) fails on a malformed document, the
\* process does not go on to serve tool calls.
C19_FailedLoadIsFatalAtStartup ==
    LoadFailedAtStartup => (pc # "serving" /\ request = None)

\* C22: across tool invocations (the five tools and unknown names, any
\* arguments, any answer of the tracker) the store's sequence of mappings
\* stays what the last construction or reload() left: a tool call changes
\* neither the list, nor its objects, nor reloads from a file that changed.
C22_ToolCallsLeaveStoreAlone ==
    [][op' = "call_tool" =>
          /\ Contents' = Contents
          /\ mappings' = mappings
          /\ heap' = heap]_vars

\* C22 witness: a tool call that read the store was served while the file
\* no longer says what the store holds.
C22_Witness ==
    /\ op = "call_tool"
    /\ Called("answer_question") \/ Called("list_knowledge_queries")
    /\ CallsTo({"get_jql_for_question", "list_available_queries"}) # <<>>
    /\ Contents # <<>>
    /\ doc = QueriesFile(<<>>)

\* The mappings ms with description d and examples e in every one of them.
Redescribed(ms, d, e) ==
    [i \in 1..Len(ms) |-> [ms[i] EXCEPT !.description = d, !.examples = e]]

\* C25: the answer of get_jql_for_question depends on the text and on the
\* ordered (patterns, query) pairs only: it is the answer of the store
\* without its mappings of no pattern, the mapping it comes from has a
\* pattern, and it is the answer of the store with any other descriptions
\* and examples.
C25_MatcherReadsPatternsAndQueryOnly ==
    op = "get_jql_for_question"
        => /\ result = GetJql(SelectSeq(Contents, LAMBDA m : m.question_patterns # <<>>),
                              question)
           /\ result # None
                 => \E i \in 1..Len(Contents) :
                       /\ Contents[i].question_patterns # <<>>
                       /\ Contents[i].jql_query = Val(result)
           /\ \A d \in {<<>>, <<"a">>, <<"b">>, <<" ">>} :
                 \A e \in {None, Some(<<>>), Some(<< <<"a">>, <<"b">> >>)} :
                    GetJql(Redescribed(Contents, d, e), question) = result

\* C25 witness: a mapping of no pattern stands first, and the answer is the
\* query of the mapping after it.
C25_Witness ==
    /\ op = "get_jql_for_question"
    /\ Len(Contents) = 2
    /\ Contents[1].question_patterns = <<>>
    /\ result = Some(Contents[2].jql_query)
    /\ Contents[2].jql_query # Contents[1].jql_query

\* The positions of the mappings that have the empty string among their
\* patterns.
CatchAlls(ms) ==
    {i \in 1..Len(ms) : \E k \in 1..Len(ms[i].question_patterns) :
                            ms[i].question_patterns[k] = <<>>}

\* C28: a mapping that has the empty string among its patterns matches
\* every text: the answer is the query of the first such mapping or of a
\* matching mapping before it, never None and never from a mapping stored
\* after it.
C28_EmptyPatternMatchesEverything ==
    (op = "get_jql_for_question" /\ CatchAlls(Contents) # {})
        => LET first == CHOOSE i \in CatchAlls(Contents) :
                            \A j \in CatchAlls(Contents) : i <= j
               hit == HitPositions(Contents, question)
               chosen == CHOOSE i \in hit : \A j \in hit : i <= j
           IN /\ first \in hit
              /\ chosen <= first
              /\ result = Some(Contents[chosen].jql_query)

\* C28 witness: the text holds the pattern of the second mapping, and the
\* answer is the query of the first, whose pattern is the empty string.
C28_Witness ==
    /\ op = "get_jql_for_question"
    /\ Len(Contents) = 2
    /\ CatchAlls(Contents) = {1}
    /\ Hits([Contents[2] EXCEPT !.question_patterns = SelectSeq(@, LAMBDA x : x # <<>>)],
            question)
    /\ result = Some(Contents[1].jql_query)
    /\ Contents[1].jql_query # Contents[2].jql_query

\* The searches of the last invocation, as the tracker answered them.
Searches == [i \in 1..Len(CallsTo({"search_issues"})) |-> Val(CallsTo({"search_issues"})[i].out)]

\* C27: an execute_jql call makes at most 3 searches: every search before
\* the last failed (by rejection or by any other error), a search that
\* succeeds is the last and its result is returned, a failed last search is
\* the third and the call ends with an error; and a tool invocation calls
\* execute_jql once when it reaches the executor, never more.
C27_AtMostThreeSearchAttempts ==
    op = "call_tool"
        => LET calls == CallsTo({"execute_jql"})
               n == Len(Searches)
           IN /\ Len(calls) <= 1
              /\ Len(calls) = 0 => n = 0
              /\ Len(calls) = 1
                    => /\ n >= 1 /\ n <= 3
                       /\ \A i \in 1..(n - 1) : Searches[i].kind # "issues"
                       /\ Searches[n].kind = "issues"
                             => /\ calls[1].error = NoError
                                /\ ~IsNone(calls[1].out)
                                /\ Len(Val(calls[1].out).issues) = Len(Searches[n].issues)
                       /\ Searches[n].kind # "issues"
                             => /\ n = 3
                                /\ calls[1].error # NoError
                                /\ Answer.isError

\* C27 witness: a network failure and a rejection were retried and the third
\* search answered.
C27_Witness ==
    /\ op = "call_tool"
    /\ Len(Searches) = 3
    /\ Searches[1].kind = "Exception"
    /\ Searches[2].kind = "JIRAError"
    /\ Searches[3].kind = "issues" /\ Searches[3].issues # <<>>
    /\ ~Answer.isError

\* How many times the symbol x stands in the text t.
Count(x, t) == Cardinality({i \in 1..Len(t) : t[i] = x})

\* The executor's call of the last invocation returned a result.
ExecutorReturned ==
    /\ Len(CallsTo({"execute_jql"})) = 1
    /\ ~IsNone(CallsTo({"execute_jql"})[1].out)

\* C29: in a successful execute_jql result 'total' is the number of records
\* in 'issues', so the 'Total Results' header of execute_jql and
\* answer_question is the number of issue blocks below it, and it is 0
\* exactly when the 'No issues found' line is there.
C29_TotalIsNumberOfIssues ==
    (op = "call_tool" /\ ExecutorReturned)
        => LET results == Val(CallsTo({"execute_jql"})[1].out)
               blocks == Count("* ", Answer.text)
           IN /\ results.total = Len(results.issues)
              /\ ~Answer.isError
              /\ Occurs(<<"Total Results: ", ToString(blocks), NL, NL>>, Answer.text)
              /\ Count("Total Results: ", Answer.text) = 1
              /\ blocks = Len(Searches[Len(Searches)].issues)
              /\ (blocks = 0) <=> (Count("No issues found matching the query.", Answer.text) = 1)
              /\ Count("No issues found matching the query.", Answer.text) <= 1

\* C29 witness: answer_question rendered two issues under a limit of its
\* own.
C29_Witness ==
    /\ Called("answer_question")
    /\ ExecutorReturned
    /\ Args.max_results # None
    /\ Count("* ", Answer.text) = 2
    /\ Occurs(<<"Total Results: ", "2">>, Answer.text)

\* C30: when execute_jql or answer_question reaches the executor, the limit
\* handed to it is the call's max_results argument when there is one and 50
\* when there is none; it is not brought into 1..1000 and not under the
\* configured cap.
C30_LimitIsPassedAsGiven ==
    (op = "call_tool" /\ CallsTo({"execute_jql"}) # <<>>)
        => /\ Called("execute_jql") \/ Called("answer_question")
           /\ \A i \in 1..Len(trace) :
                 trace[i].callee \in {"execute_jql", "search_issues"}
                    => trace[i].args[2] =
                          (IF Args.max_results = None THEN 50 ELSE Val(Args.max_results))

\* C30 witness: a limit of 5000, over the schema's range and over the cap,
\* reached the tracker.
C30_Witness ==
    /\ Called("execute_jql")
    /\ Args.max_results = Some(5000)
    /\ CallsTo({"search_issues"}) # <<>>
    /\ CallsTo({"search_issues"})[1].args[2] = 5000
    /\ 5000 > ServerMaxResults

\* The last create_store call raised a ValueError whose message holds text.
RaisedValueError(text) ==
    /\ raised # NoError
    /\ Val(raised).type = "ValueError"
    /\ Occurs(text, Val(raised).message)

\* C23: create_store returns a store only for type 'yaml' with a non-empty
\* file_path; for 'yaml' with a missing or empty file_path, and for every
\* other type, it raises a ValueError ('file_path is required' /
\* 'Unsupported knowledge store type') and creates no store.
C23_FactoryCreatesYamlStoresOnly ==
    op = "create_store"
        => LET a == Val(request).arguments
           IN /\ constructed => (a.store_type = "yaml" /\ Truthy(a.file_path))
              /\ (a.store_type = "yaml" /\ ~Truthy(a.file_path))
                    => /\ ~constructed /\ Contents = <<>>
                       /\ RaisedValueError(<<"file_path is required for YAML knowledge store">>)
              /\ a.store_type # "yaml"
                    => /\ ~constructed /\ Contents = <<>>
                       /\ RaisedValueError(<<"Unsupported knowledge store type: ", a.store_type>>)

\* C23 witness: 'yaml' with an empty file_path was refused while the file
\* at the default path holds records.
C23_Witness ==
    /\ op = "create_store"
    /\ Val(request).arguments = [store_type |-> "yaml", file_path |-> Some(<<>>)]
    /\ IsQueriesFile(doc) /\ Len(RecordsOf(doc)) > 0
    /\ ~constructed
    /\ raised # NoError

\* The JIRA(...) calls of the last construction: the keyword of each, and
\* whether the last of them returned.
AuthOrder == [i \in 1..Len(trace) |-> trace[i].args[1]]
LastAttemptFailed == trace # <<>> /\ trace[Len(trace)].out = Some(FALSE)

\* C21: JiraClient construction authenticates in a fixed order: with a
\* username it tries the token first and basic authentication only after
\* the token attempt failed, two attempts at most; without a username it
\* makes one token attempt; when the last attempt fails the construction
\* raises and leaves no initialized client, and else it leaves one.
C21_AuthenticationOrder ==
    op = "JiraClient"
        => LET username == Val(request).arguments.username
           IN /\ Truthy(username)
                    => \/ AuthOrder = <<"token_auth">> /\ trace[1].out = Some(TRUE)
                       \/ AuthOrder = <<"token_auth", "basic_auth">>
                             /\ trace[1].out = Some(FALSE)
              /\ ~Truthy(username) => AuthOrder = <<"token_auth">>
              /\ LastAttemptFailed <=> raised # NoError
              /\ LastAttemptFailed <=> client = None
              /\ client # None => Val(client)._client # None

\* C21 witness: with a username, the token attempt failed, the basic
\* attempt too, and the construction raised.
C21_Witness ==
    /\ op = "JiraClient"
    /\ Truthy(Val(request).arguments.username)
    /\ Len(trace) = 2
    /\ LastAttemptFailed
    /\ raised # NoError /\ client = None

\* C26: test_connection never raises; it returns True exactly when the
\* server-info request succeeded, and False for every failure, the one of a
\* client that is not initialized included (no request is made then).
C26_TestConnectionNeverRaises ==
    op = "test_connection"
        => /\ raised = NoError
           /\ connected \in {Some(TRUE), Some(FALSE)}
           /\ connected = Some(TRUE)
                 <=> (trace # <<>> /\ trace[1].callee = "server_info"
                        /\ trace[1].out = Some(TRUE))
           /\ Val(client)._client = None => (connected = Some(FALSE) /\ trace = <<>>)

\* C26 witness: test_connection on an object whose _client holds nothing
\* returned False.
C26_Witness ==
    /\ op = "test_connection"
    /\ client = Uninitialized
    /\ connected = Some(FALSE)
    /\ raised = NoError

\* What get_jql_for_question answers for text t against the complete
\* sequence ms.
AnswerAgainst(ms, t) ==
    LET hit == HitPositions(ms, t)
    IN IF hit = {} THEN None
       ELSE Some(ms[CHOOSE i \in hit : \A j \in hit : i <= j].jql_query)

\* C24: a get_jql_for_question or list_available_queries call that runs
\* while reload() runs gives the result it would give against a complete
\* sequence the store held before or after the reload: never a mixture of
\* old and new mappings, never a partly built sequence.
C24_ReadersSeeWholeSequences ==
    /\ (op = "scan" /\ reader.pc = "done")
          => result \in {AnswerAgainst(ms, reader.text) : ms \in reader.versions}
    /\ (op = "list_available_queries" /\ listed # None)
          => Deref(heap, Val(listed))
                \in (IF loader.pc = "filling" THEN {loader.before, loader.built}
                     ELSE {Contents})

\* C24 witness: a scan that began on one sequence ended after a reload had
\* assigned another, and the two sequences answer its question differently.
C24_Witness ==
    /\ op = "scan" /\ reader.pc = "done"
    /\ ~reader.attached
    /\ reader.pos > 1
    /\ Cardinality({AnswerAgainst(ms, reader.text) : ms \in reader.versions}) > 1

====
